---- MODULE Spec2Model ----
(***************************************************************************)
(* A model of erppeek.py: the Client (authentication through the session  *)
(* cache, the execute funnel, the model registry), the Model handles and   *)
(* the Record field cache, against an abstract OpenERP server.             *)
(*                                                                         *)
(* Every public operation of the program is one action.  An operation is   *)
(* evaluated by threading an evaluation state `st` through operators that  *)
(* carry the names of the methods they model:                              *)
(*   st.self     the Client object (its attributes)                        *)
(*   st.cache    Client._login.cache, the process-wide session cache       *)
(*   st.calls    the remote calls issued so far by the operation           *)
(*   st.exc      the exception being raised ("" when none)                 *)
(*   st.flt      the index of the remote call the transport fails (0: none)*)
(*   st.prompted whether getpass() has been called                         *)
(***************************************************************************)
EXTENDS Integers, Sequences, FiniteSets, TLC

VARIABLES
    srvPw,      \* server: login name -> current password (table res.users)
    srvSchema,  \* server: version of the installed schema (bumped by an upgrade)
    srvVersion, \* server: the version it reports, db.server_version()
    cache,      \* Client._login.cache: (server, db, user) -> <<uid, password>>
    clients,    \* the Client objects held by the caller
    recs,       \* the Record handles held by the caller
    op,         \* the last operation: its name, arguments and outcome
    calls,      \* the remote calls the last operation issued, in order
    args,       \* the arguments of the call the caller is about to make
    lists       \* the RecordList objects held by the caller

vars == <<srvPw, srvSchema, srvVersion, cache, clients, recs, op, calls, args, lists>>

----------------------------------------------------------------------------
(* Bounds of the model *)

\* the transport may fail one remote call of an operation: its index, 0 for none
MaxFaultAt == 6
\* module upgrades performed on the server
MaxUpgrades == 1
\* Model instances created by one Client
MaxInstances == 2
\* Record handles the caller holds
MaxRecords == 2
\* ids of a RecordList
MaxIds == 4
\* terms of a domain list given to execute
MaxTerms == 2
\* keyword arguments given to execute
MaxKwargs == 2

----------------------------------------------------------------------------
(* The server and the inputs *)

Clients == {"c1"}
Server == "http://localhost:8069"
Db == "openerp"
\* login names tried by the caller; "eve" is not in res.users
Logins == {"admin", "bob", "eve"}
SrvUsers == {"admin", "bob"}
Passwords == {"p1", "p2"}
\* password=None (or an empty string): `if password:` is false for both
NoPassword == ""
ModelNames == <<"res.partner", "res.users">>
ModelSet == {ModelNames[i] : i \in DOMAIN ModelNames}
\* db.server_version() of the server of the model, a string of characters
ServerVersion == <<"6", ".", "1", ".", "0">>

\* uid = None / uid = False in Client._auth; the ids of res.users are positive
UidNone == -1
UidFalse == 0
Uid(user) == IF user = "admin" THEN 1 ELSE 2
Truthy(uid) == uid > 0

\* the server accepts (uid, password) on an authenticated endpoint
CredOK(uid, pw) == \E u \in SrvUsers : Uid(u) = uid /\ srvPw[u] = pw
\* common.login(db, user, password): the uid, or False
SrvLogin(user, pw) ==
    IF user \in SrvUsers /\ srvPw[user] = pw THEN Uid(user) ELSE UidFalse
\* ir.model.access check(model, mode): only the administrator may do more than read
SrvAccess(uid, obj, mode) == mode = "read" \/ uid = Uid("admin")
\* ir.model search [('model', 'like', name)]
Like(pattern, name) == pattern = "" \/ pattern = name

----------------------------------------------------------------------------
(* The XML-RPC endpoints and the methods published on them *)

Endpoints == {"db", "common", "object", "wizard", "report"}

\* _methods[name]
_methods(name) ==
    CASE name = "db" ->
            {"create", "drop", "dump", "restore", "rename", "list",
             "list_lang", "change_admin_password", "server_version",
             "migrate_databases"}
      [] name = "common" ->
            {"about", "login", "timezone_get", "get_server_environment",
             "login_message", "check_connectivity"}
      [] name = "object" -> {"execute", "exec_workflow"}
      [] name = "wizard" -> {"execute", "create"}
      [] name = "report" -> {"report", "report_get"}

\* _methods_6_1[name]
_methods_6_1(name) ==
    CASE name = "db" -> {"create_database", "db_exist"}
      [] name = "common" ->
            {"get_stats", "list_http_services", "version", "authenticate",
             "get_os_time", "get_sqlcount"}
      [] name = "object" -> {"execute_kw"}
      [] name = "wizard" -> {}
      [] name = "report" -> {"render_report"}

\* the position of the first sep in chars
find(chars, sep) ==
    CHOOSE i \in DOMAIN chars :
        chars[i] = sep /\ \A j \in 1..(i - 1) : chars[j] # sep

\* chars.split(sep, maxsplit)
RECURSIVE split(_, _, _)
split(chars, sep, maxsplit) ==
    IF maxsplit = 0 \/ \A i \in DOMAIN chars : chars[i] # sep THEN <<chars>>
    ELSE <<SubSeq(chars, 1, find(chars, sep) - 1)>>
         \o split(SubSeq(chars, find(chars, sep) + 1, Len(chars)), sep,
                  maxsplit - 1)

\* sep.join(pieces)
RECURSIVE join(_, _)
join(sep, pieces) ==
    IF pieces = <<>> THEN <<>>
    ELSE IF Len(pieces) = 1 THEN pieces[1]
    ELSE pieces[1] \o <<sep>> \o join(sep, Tail(pieces))

\* pieces[:n]
Upto(pieces, n) == SubSeq(pieces, 1, IF Len(pieces) < n THEN Len(pieces) ELSE n)

\* major_version = '.'.join(ver.split('.', 2)[:2])
major_version(ver) == join(".", Upto(split(ver, ".", 2), 2))

\* get_proxy publishing the 6.1 additions whatever the version
get_proxy_all(major, name) == _methods(name) \cup _methods_6_1(name)

\* get_proxy(name) of Client.__init__ when major_version is set: the methods
\* of the Service
get_proxy(major, name) ==
    IF major = <<"5", ".", "0">> THEN _methods(name)
    ELSE _methods(name) \cup _methods_6_1(name)

----------------------------------------------------------------------------
(* Remote calls *)

Call(via, ep, meth, uid, pw, obj, m, arg) ==
    [via |-> via, ep |-> ep, meth |-> meth, uid |-> uid, pw |-> pw,
     obj |-> obj, m |-> m, arg |-> arg]

\* One XML-RPC request: logged, and a Fault when the transport fails it or the
\* server refuses it.
Remote(st, call, accepted) ==
    IF st.exc # "" THEN st
    ELSE [st EXCEPT !.calls = Append(@, call),
                    !.exc = IF Len(st.calls) + 1 = st.flt \/ ~accepted
                            THEN "Fault" ELSE ""]

\* self._object.execute(db, uid, password, obj, method, ...)
ObjectExecute(st, via, uid, pw, obj, m, arg, allowed) ==
    Remote(st, Call(via, "object", "execute", uid, pw, obj, m, arg),
           CredOK(uid, pw) /\ allowed)

NoSession == [set |-> FALSE, uid |-> UidNone, pw |-> ""]
Session(uid, pw) == [set |-> TRUE, uid |-> uid, pw |-> pw]

\* self._execute(obj, method, ...): the partial bound by login, None before
SelfExecute(st, via, obj, m, arg, allowed) ==
    IF st.exc # "" THEN st
    ELSE IF ~st.self.sess.set THEN [st EXCEPT !.exc = "TypeError"]
    ELSE ObjectExecute(st, via, st.self.sess.uid, st.self.sess.pw,
                       obj, m, arg, allowed)

Raise(st, exc) == IF st.exc # "" THEN st ELSE [st EXCEPT !.exc = exc]

\* Service.__getattr__(name) on the Service self.<endpoint> and the call of
\* the wrapper it returns: one request of that name to the endpoint;
\* AttributeError for a name that is not in self._methods
ServiceGetattr(st, endpoint, name) ==
    IF name \in st.self.proxies[endpoint]
    THEN Remote(st, Call("proxy", endpoint, name, UidNone, "", "-", "-", "-"),
                TRUE)
    ELSE Raise(st, "AttributeError")

----------------------------------------------------------------------------
(* Client: the execute funnel and the model registry *)

EmptyMap == [k \in {} |-> 0]
MapPut(f, k, v) == [x \in DOMAIN f \cup {k} |-> IF x = k THEN v ELSE f[x]]
MapDel(f, k) == [x \in DOMAIN f \ {k} |-> f[x]]

\* a Model instance as created by object.__new__(Model) and Model._init:
\* neither _keys nor _fields is in its __dict__ (-1: not fetched yet), else
\* the version of the schema they were fetched from; nkeys and nfields
\* count the fetches (history)
NotFetched == -1
NewModel(name) ==
    [name |-> name, keys |-> NotFetched, fields |-> NotFetched,
     nkeys |-> 0, nfields |-> 0]

\* the attributes of a Client object; `alive` is false for a name the caller
\* has not bound to a Client yet
NoClient ==
    [alive |-> FALSE, user |-> "", sess |-> NoSession, hasModels |-> FALSE,
     ver |-> <<>>, proxies |-> [name \in Endpoints |-> {}], models |-> EmptyMap, mixed |-> EmptyMap, insts |-> <<>>,
     lastOk |-> NoSession, given |-> [n \in ModelSet |-> {}]]

\* try: ... except (TypeError, Fault): return False / else: return True
Caught(st) == [st EXCEPT !.exc = "", !.flag = (st.exc = "")]

\* Client.execute(obj, method, *params): read and name_get given a search
\* domain first issue a search for the ids
Execute(st, obj, m, isDomain, arg) ==
    SelfExecute(IF m \in {"read", "name_get"} /\ isDomain
                THEN SelfExecute(st, "execute", obj, "search", arg, TRUE)
                ELSE st,
                "execute", obj, m,
                IF m \in {"read", "name_get"} /\ isDomain THEN "ids" ELSE arg,
                TRUE)

\* Client._model(name): the registered instance, or a new one, registered
_model(st, name) ==
    IF name \in DOMAIN st.self.models
    THEN [st EXCEPT !.ret = st.self.models[name]]
    ELSE [st EXCEPT !.self.insts = Append(@, NewModel(name)),
                    !.self.models = MapPut(@, name, Len(st.self.insts) + 1),
                    !.ret = Len(st.self.insts) + 1]

RECURSIVE RegisterAll(_, _)
RegisterAll(st, names) ==
    IF names = <<>> THEN st
    ELSE RegisterAll(_model(st, Head(names)), Tail(names))

\* Client.models(name), after its search+read on ir.model: _model for each name
models_register(st, name) ==
    IF st.exc # "" THEN st
    ELSE RegisterAll(st, SelectSeq(ModelNames, LAMBDA n : Like(name, n)))

\* Client.models(name)
models(st, name) ==
    models_register(Execute(st, "ir.model", "read", TRUE, name), name)

\* Client.model(name), after self.models(name)
model_lookup(st, name) ==
    IF st.exc # "" THEN st
    ELSE IF name \in DOMAIN st.self.models
         THEN [st EXCEPT !.ret = st.self.models[name]]
    ELSE [st EXCEPT !.exc = "RuntimeError"]

\* Client.model(name).  Before __init__ has set self._models the attribute
\* lookup falls into Client.__getattr__, which returns a method wrapper, and
\* subscripting it raises TypeError.
model(st, name) ==
    IF st.exc # "" THEN st
    ELSE IF ~st.self.hasModels THEN [st EXCEPT !.exc = "TypeError"]
    ELSE IF name \in DOMAIN st.self.models
         THEN [st EXCEPT !.ret = st.self.models[name]]
    ELSE model_lookup(models(st, name), name)

\* Model.access(mode) of the Model st.ret: True, or False on TypeError (no
\* self.client._execute yet) and on Fault
ModelAccess(st, mode) ==
    IF st.exc # "" THEN st
    ELSE Caught(SelfExecute(st, "_execute", "ir.model.access", "check",
                            st.self.insts[st.ret].name,
                            SrvAccess(st.self.sess.uid,
                                      st.self.insts[st.ret].name, mode)))

\* Client.access(obj, mode) = self.model(obj).access(mode=mode)
access(st, obj, mode) == ModelAccess(model(st, obj), mode)

\* Client.read(obj, domain, 'id password'): search, then read
read(st, obj, arg) == Execute(st, obj, "read", TRUE, arg)

\* lowercase('ResPartner') = 'res.partner': a dot before each capital, lowered
lowercase(s) ==
    CASE s = "ResPartner" -> "res.partner"
      [] s = "ResUsers" -> "res.users"
      [] OTHER -> s

\* Client.__getattr__(method), after self.model(...): self.__dict__[method] = rv
getattr_store(st, method) ==
    IF st.exc # "" THEN st
    ELSE [st EXCEPT !.self.mixed = MapPut(@, method, st.ret)]

\* client.<MixedCase>: the attribute of the instance __dict__ when it is
\* there, else Client.__getattr__
ClientGetattr(st, method) ==
    IF method \in DOMAIN st.self.mixed
    THEN [st EXCEPT !.ret = st.self.mixed[method]]
    ELSE getattr_store(model(st, lowercase(method)), method)

\* Model.__new__(cls, client, name) = client.model(name)
ModelNew(st, name) == model(st, name)

\* Model.__getattr__('_keys'), after self._get_keys(): kept in __dict__
_keys_store(st, inst) ==
    IF st.exc # "" THEN st
    ELSE [st EXCEPT !.self.insts[inst].keys = st.schema,
                    !.self.insts[inst].nkeys = @ + 1]

\* model._keys: the value in __dict__, else Model.__getattr__ fetches it
_keys(st, inst) ==
    IF st.exc # "" \/ st.self.insts[inst].keys # NotFetched THEN st
    ELSE _keys_store(Execute(st, st.self.insts[inst].name, "fields_get_keys",
                             FALSE, "-"), inst)

\* Model.__getattr__('_fields'), after self._get_fields(): kept in __dict__
_fields_store(st, inst) ==
    IF st.exc # "" THEN st
    ELSE [st EXCEPT !.self.insts[inst].fields = st.schema,
                    !.self.insts[inst].nfields = @ + 1]

\* model._fields: the value in __dict__, else Model.__getattr__ fetches it
_fields(st, inst) ==
    IF st.exc # "" \/ st.self.insts[inst].fields # NotFetched THEN st
    ELSE _fields_store(Execute(st, st.self.insts[inst].name, "fields_get",
                               FALSE, "-"), inst)

\* self._wizard_create / self._wizard_execute: the authenticated wizard endpoint
WizardCall(st, meth) ==
    IF st.exc # "" THEN st
    ELSE Remote(st, Call("wizard", "wizard", meth, st.self.sess.uid,
                         st.self.sess.pw, "module.upgrade", "start", "-"),
                CredOK(st.self.sess.uid, st.self.sess.pw))

\* Client._upgrade: update the list of modules and search the given ones
upgrade_list(st) ==
    Execute(Execute(st, "ir.module.module", "update_list", FALSE, "-"),
            "ir.module.module", "search", FALSE, "modules")

\* Client._upgrade: the server has run the scheduled upgrades
upgrade_done(st) ==
    IF st.exc # "" THEN st ELSE [st EXCEPT !.schema = @ + 1]

\* Client._upgrade: the wizard "Apply Scheduled Upgrades" (5.0), else
\* base.module.upgrade upgrade_module
upgrade_run(st) ==
    IF st.self.ver = <<"5", ".", "0">>
    THEN upgrade_done(WizardCall(WizardCall(st, "create"), "execute"))
    ELSE upgrade_done(Execute(st, "base.module.upgrade", "upgrade_module",
                              FALSE, "-"))

\* Client._upgrade, after the read of the modules to update: return when
\* there is none, else self._models.clear() and run the upgrade
upgrade_apply(st, pending) ==
    IF st.exc # "" \/ ~pending THEN st
    ELSE upgrade_run([st EXCEPT !.self.models = EmptyMap])

\* Client._upgrade(modules, button): `found`, the search returns ids;
\* `pending`, modules are left in an unstable state by the button
_upgrade(st, button, found, pending) ==
    IF ~found THEN upgrade_list(st)
    ELSE upgrade_apply(read(Execute(upgrade_list(st), "ir.module.module",
                                    button, FALSE, "ids"),
                            "ir.module.module", "state"),
                       pending)

----------------------------------------------------------------------------
(* Record: a handle on one id of a model, with its values cached in the    *)
(* instance __dict__                                                       *)

\* the fields of res.partner in each version of the schema: an upgrade adds
\* the field x_new
FieldsOf(v) ==
    IF v >= 1 THEN {"name", "parent_id", "x_new"} ELSE {"name", "parent_id"}
\* field['type'] and field['relation'] of the descriptors
FieldType(f) == IF f = "parent_id" THEN "many2one" ELSE "char"
Relation(f) == "res.partner"

\* Record.__init__: the __dict__ holds client, _model_name, _model, _context
\* and id; dict is what it holds besides them (a tag for each value)
NewRecord(inst, id) == [inst |-> inst, id |-> id, dict |-> EmptyMap]

\* Model.browse(ids) with an integer: Record(self, ids), no remote call
browse(st, inst, id) ==
    [st EXCEPT !.recs = Append(@, NewRecord(inst, id)),
               !.ret = Len(st.recs) + 1]

\* the value as the server returns it, and as Record._update stores it: a
\* many2one becomes a Record unless the value is empty
RawTag(f, empty) ==
    IF empty THEN "empty"
    ELSE IF FieldType(f) = "many2one" THEN "rawid" ELSE "value"
UpdatedTag(f, empty) ==
    IF empty THEN "empty"
    ELSE IF FieldType(f) = "many2one" THEN "Record" ELSE "value"

\* Record._update, last statement: self.__dict__.update(new_values)
_update_store(st, h, f, empty) ==
    IF st.exc # "" THEN st
    ELSE [st EXCEPT !.recs[h].dict = MapPut(@, f, UpdatedTag(f, empty))]

\* Record._update, after self._model._fields: the descriptor of the key
\* (KeyError when the descriptors do not have it), and for a many2one
\* self.client.model(field['relation']).browse(value[0])
_update_resolve(st, h, f, empty) ==
    IF st.exc # "" THEN st
    ELSE IF f \notin FieldsOf(st.self.insts[st.recs[h].inst].fields)
         THEN [st EXCEPT !.exc = "KeyError"]
    ELSE IF ~empty /\ FieldType(f) = "many2one" THEN model(st, Relation(f))
    ELSE st

\* Record._update({f: value})
_update(st, h, f, empty) ==
    _update_store(_update_resolve(_fields(st, st.recs[h].inst), h, f, empty),
                  h, f, empty)

\* Record.__getitem__, after the KeyError and self._model._keys: raise when
\* the name is no key, else client.read of the one field and _update
getitem_fetch(st, h, f, empty) ==
    IF st.exc # "" THEN st
    ELSE IF f \notin FieldsOf(st.self.insts[st.recs[h].inst].keys)
         THEN [st EXCEPT !.exc = "KeyError"]
    ELSE _update(Execute(st, st.self.insts[st.recs[h].inst].name, "read",
                         FALSE, f),
                 h, f, empty)

\* RecordGetitem reading from the server whatever is cached
RecordGetitem_uncached(st, h, f, empty) ==
    getitem_fetch(_keys(st, st.recs[h].inst), h, f, empty)

\* Record.__getitem__(attr): record[f]
RecordGetitem(st, h, f, empty) ==
    IF f \in DOMAIN st.recs[h].dict THEN st
    ELSE getitem_fetch(_keys(st, st.recs[h].inst), h, f, empty)

\* Record.__getattr__, after self._model._keys: self[attr] for a key, else
\* the wrapper of the remote method of that name, kept in __dict__
getattr_known(st, h, f, empty) ==
    IF st.exc # "" THEN st
    ELSE IF f \in FieldsOf(st.self.insts[st.recs[h].inst].keys)
         THEN RecordGetitem(st, h, f, empty)
    ELSE [st EXCEPT !.recs[h].dict = MapPut(@, f, "method")]

\* record.f: the value in __dict__ when it is there, else Record.__getattr__
RecordGetattr(st, h, f, empty) ==
    IF f \in DOMAIN st.recs[h].dict THEN st
    ELSE getattr_known(_keys(st, st.recs[h].inst), h, f, empty)

\* Record.read(), after client.read: self.__dict__.update(rv), the values as
\* the server returned them, for every field the model has now
read_update(st, h, empty) ==
    IF st.exc # "" THEN st
    ELSE [st EXCEPT !.recs[h].dict =
            [x \in DOMAIN st.recs[h].dict \cup FieldsOf(st.schema) |->
                IF x \in FieldsOf(st.schema) THEN RawTag(x, empty)
                ELSE st.recs[h].dict[x]]]

\* Record.read(): all the fields
RecordRead(st, h, empty) ==
    read_update(Execute(st, st.self.insts[st.recs[h].inst].name, "read",
                        FALSE, "-"),
                h, empty)

\* Record._clear_cache, after self._model._keys: delattr for each key in
\* __dict__
clear_keys(st, h) ==
    IF st.exc # "" THEN st
    ELSE [st EXCEPT !.recs[h].dict =
            [x \in DOMAIN st.recs[h].dict
                    \ FieldsOf(st.self.insts[st.recs[h].inst].keys) |->
                st.recs[h].dict[x]]]

\* Record._clear_cache()
_clear_cache(st, h) == clear_keys(_keys(st, st.recs[h].inst), h)

\* Record.write(values): the remote write, then _clear_cache
RecordWrite(st, h) ==
    _clear_cache(Execute(st, st.self.insts[st.recs[h].inst].name, "write",
                         FALSE, "values"),
                 h)

\* Record.unlink(): the remote unlink, then _clear_cache
RecordUnlink(st, h) ==
    _clear_cache(Execute(st, st.self.insts[st.recs[h].inst].name, "unlink",
                         FALSE, "-"),
                 h)

\* Record.__setattr__, after self.write({attr: value}): delattr if cached
setattr_del(st, h, f) ==
    IF st.exc # "" THEN st
    ELSE [st EXCEPT !.recs[h].dict = MapDel(@, f)]

\* Record.__setattr__, after self._model._keys: write for a key, else
\* object.__setattr__
setattr_known(st, h, f) ==
    IF st.exc # "" THEN st
    ELSE IF f \in FieldsOf(st.self.insts[st.recs[h].inst].keys)
         THEN setattr_del(RecordWrite(st, h), h, f)
    ELSE [st EXCEPT !.recs[h].dict = MapPut(@, f, "local")]

\* record.f = value
RecordSetattr(st, h, f) == setattr_known(_keys(st, st.recs[h].inst), h, f)

\* RecordList.__getattr__(attr)(...): client.execute(model, attr, ids, ...)
RecordListCall(st, inst, attr) ==
    Execute(st, st.self.insts[inst].name, attr, FALSE, "ids")

----------------------------------------------------------------------------
(* Arguments of Client.execute: Python values, the domain normaliser       *)
(* (issearchdomain, searchargs, _term_re)                                  *)

\* a Python value is the pair of its type and its content (x[1] is the
\* type, x[2] the content); a str is the sequence of its characters
PyInt(n) == <<"int", n>>
Str(chars) == <<"str", chars>>
List(items) == <<"list", items>>
Tuple(items) == <<"tuple", items>>
Dict(keys) == <<"dict", keys>>
None == <<"none", 0>>

\* bool(value)
bool(x) ==
    CASE x[1] = "none" -> FALSE
      [] x[1] = "int" -> x[2] # 0
      [] OTHER -> x[2] # <<>>

Digits == <<"0", "1", "2", "3", "4", "5", "6", "7", "8", "9">>
IsDigit(ch) == \E d \in DOMAIN Digits : Digits[d] = ch
\* str.isdigit()
isdigit(chars) == chars # <<>> /\ \A i \in DOMAIN chars : IsDigit(chars[i])

\* arg[0]: an element of a list or tuple, a one-character str of a str
First(arg) == IF arg[1] = "str" THEN Str(<<arg[2][1]>>) ELSE arg[2][1]

\* issearchdomain(arg)
issearchdomain(arg) ==
    /\ arg[1] \in {"list", "tuple", "str"}
    /\ ~(/\ arg[2] # <<>>
         /\ \/ First(arg)[1] = "int"
            \/ First(arg)[1] = "str" /\ isdigit(First(arg)[2]))

\* DOMAIN_OPERATORS = frozenset('!|&')
DOMAIN_OPERATORS == {Str(<<"!">>), Str(<<"|">>), Str(<<"&">>)}

\* the alternatives of the operator group of _term_re, in its order
TermOperators ==
    << <<"=">>, <<"!", "=">>, <<">">>, <<">", "=">>, <<"<">>, <<"<", "=">>,
       <<"l", "i", "k", "e">>, <<"i", "l", "i", "k", "e">>, <<"i", "n">>,
       <<"n", "o", "t", " ", "l", "i", "k", "e">>,
       <<"n", "o", "t", " ", "i", "l", "i", "k", "e">>,
       <<"n", "o", "t", " ", "i", "n">>,
       <<"c", "h", "i", "l", "d", "_", "o", "f">> >>

\* s[p..] starts with tok
StartsAt(s, p, tok) ==
    /\ p + Len(tok) - 1 <= Len(s)
    /\ \A i \in DOMAIN tok : s[p + i - 1] = tok[i]

\* the position of the first character that is no space, from p on
RECURSIVE SkipSpaces(_, _)
SkipSpaces(s, p) ==
    IF p <= Len(s) /\ s[p] = " " THEN SkipSpaces(s, p + 1) ELSE p

\* term.strip()
RECURSIVE rstrip(_)
rstrip(s) ==
    IF s # <<>> /\ s[Len(s)] = " " THEN rstrip(SubSeq(s, 1, Len(s) - 1)) ELSE s
strip(s) == rstrip(SubSeq(s, SkipSpaces(s, 1), Len(s)))

\* the first alternative of the operator group that matches at p (0: none)
RECURSIVE FirstOperator(_, _, _)
FirstOperator(s, p, o) ==
    IF o > Len(TermOperators) THEN 0
    ELSE IF StartsAt(s, p, TermOperators[o]) THEN o
    ELSE FirstOperator(s, p, o + 1)

\* (\S+)\s*(operator): can the field group end at k
FieldEndsAt(s, k) ==
    /\ \A i \in 1..k : s[i] # " "
    /\ FirstOperator(s, SkipSpaces(s, k + 1), 1) # 0

\* _term_re.match(s): the end of the field group, the longest that lets the
\* rest match (\S+ is greedy and backtracks); 0 when there is no match
RECURSIVE FieldEnd(_, _)
FieldEnd(s, k) ==
    IF k = 0 THEN 0
    ELSE IF FieldEndsAt(s, k) THEN k
    ELSE FieldEnd(s, k - 1)

\* the groups of the match whose field ends at k
MatchOperator(s, k) == TermOperators[FirstOperator(s, SkipSpaces(s, k + 1), 1)]
MatchValue(s, k) ==
    SubSeq(s, SkipSpaces(s, SkipSpaces(s, k + 1) + Len(MatchOperator(s, k))),
           Len(s))

\* int(chars) of a string of digits
RECURSIVE DigitsValue(_)
DigitValue(ch) == (CHOOSE d \in DOMAIN Digits : Digits[d] = ch) - 1
DigitsValue(chars) ==
    IF chars = <<>> THEN 0
    ELSE 10 * DigitsValue(SubSeq(chars, 1, Len(chars) - 1))
            + DigitValue(chars[Len(chars)])

\* literal_eval(value), else the text itself: a number for digits, and the
\* text for what is no Python literal (letters, an operator, nothing)
literal_eval(chars) ==
    IF isdigit(chars) THEN PyInt(DigitsValue(chars)) ELSE Str(chars)

\* what searchargs puts in the place of a term that does not parse: it
\* raises ValueError
Unparsed == <<"ValueError", 0>>

\* the 3-tuple of a term string whose field ends at k
TermTuple(s, k) ==
    IF k = 0 THEN Unparsed
    ELSE Tuple(<<Str(SubSeq(s, 1, k)), Str(MatchOperator(s, k)),
                 literal_eval(MatchValue(s, k))>>)

\* normalize_term leaving a term that does not parse as it is
normalize_term_lenient(term) ==
    IF /\ term[1] = "str" /\ term \notin DOMAIN_OPERATORS
       /\ FieldEnd(strip(term[2]), Len(strip(term[2]))) # 0
    THEN TermTuple(strip(term[2]), FieldEnd(strip(term[2]), Len(strip(term[2]))))
    ELSE term

\* searchargs, the body of its loop: a string term that is no connector is
\* replaced by its 3-tuple
normalize_term(term) ==
    IF term[1] = "str" /\ term \notin DOMAIN_OPERATORS
    THEN TermTuple(strip(term[2]), FieldEnd(strip(term[2]), Len(strip(term[2]))))
    ELSE term

\* searchargs: a str or tuple domain is wrapped in a list
domain_terms(domain) ==
    IF domain[1] \in {"str", "tuple"} THEN <<domain>> ELSE domain[2]

\* normalize_domain putting the terms in the reverse order
normalize_domain_reversed(domain) ==
    [i \in DOMAIN domain_terms(domain) |->
        normalize_term(domain_terms(domain)[Len(domain_terms(domain)) + 1 - i])]

\* searchargs, its loop over the domain
normalize_domain(domain) ==
    [i \in DOMAIN domain_terms(domain) |-> normalize_term(domain_terms(domain)[i])]

\* kwargs.pop(name, default), the value
Pop(kwargs, name, default) ==
    IF name \in DOMAIN kwargs THEN kwargs[name] ELSE default

\* searchargs with limit before offset
searchargs_limit_first(params, kwargs, context) ==
    IF params = <<>> THEN <<List(<<>>)>>
    ELSE IF params[1][1] \notin {"str", "tuple", "list"} THEN params
    ELSE IF \E i \in DOMAIN normalize_domain(params[1]) :
                normalize_domain(params[1])[i] = Unparsed
         THEN <<Unparsed>>
    ELSE IF (DOMAIN kwargs # {} \/ bool(context)) /\ Len(params) = 1
         THEN <<List(normalize_domain(params[1])),
                Pop(kwargs, "limit", None), Pop(kwargs, "offset", PyInt(0)),
                Pop(kwargs, "order", None), context>>
    ELSE <<List(normalize_domain(params[1]))>> \o Tail(params)

\* searchargs(params, kwargs, context): the parameters of the search, or
\* <<Unparsed>> when a term raises ValueError
searchargs(params, kwargs, context) ==
    IF params = <<>> THEN <<List(<<>>)>>
    ELSE IF params[1][1] \notin {"str", "tuple", "list"} THEN params
    ELSE IF \E i \in DOMAIN normalize_domain(params[1]) :
                normalize_domain(params[1])[i] = Unparsed
         THEN <<Unparsed>>
    ELSE IF (DOMAIN kwargs # {} \/ bool(context)) /\ Len(params) = 1
         THEN <<List(normalize_domain(params[1])),
                Pop(kwargs, "offset", PyInt(0)), Pop(kwargs, "limit", None),
                Pop(kwargs, "order", None), context>>
    ELSE <<List(normalize_domain(params[1]))>> \o Tail(params)

----------------------------------------------------------------------------
(* Client.execute, argument by argument.  A frame holds the state and the  *)
(* locals params, kwargs and context of one call of execute                *)

\* kwargs without the names popped from it
Without(kwargs, names) == [n \in DOMAIN kwargs \ names |-> kwargs[n]]

\* context = kwargs.pop('context', None)
Frame(st, params, kwargs) ==
    [st |-> st, params |-> params, kwargs |-> Without(kwargs, {"context"}),
     context |-> Pop(kwargs, "context", None)]

\* searchargs raised ValueError
Raised(search_params) == search_params[1][1] = "ValueError"

\* what searchargs leaves in kwargs: it pops offset, limit and order when it
\* folds them into the parameters
searchargs_kwargs(params, kwargs, context) ==
    IF /\ params # <<>>
       /\ params[1][1] \in {"str", "tuple", "list"}
       /\ DOMAIN kwargs # {} \/ bool(context)
       /\ Len(params) = 1
    THEN Without(kwargs, {"offset", "limit", "order"})
    ELSE kwargs

\* the server's answer to a remote call that returned
Answer(st, value) == IF st.exc = "" THEN [st EXCEPT !.ret = value] ELSE st

\* ids = self._execute(obj, 'search', *search_params), found is the id
\* list the server answers
execute_search(fr, obj, found) ==
    IF Raised(searchargs(SubSeq(fr.params, 1, 1), fr.kwargs, fr.context))
    THEN [fr EXCEPT !.st = Raise(@, "ValueError")]
    ELSE [fr EXCEPT
            !.st = Answer(SelfExecute(@, "execute", obj, "search",
                              searchargs(SubSeq(fr.params, 1, 1), fr.kwargs,
                                         fr.context), TRUE),
                          found),
            !.kwargs = searchargs_kwargs(SubSeq(fr.params, 1, 1), @,
                                         fr.context)]

\* execute_ids passing its first parameter on in the place of the ids the
\* search answered
execute_ids_given(fr, obj, found) ==
    IF issearchdomain(fr.params[1])
    THEN [execute_search(fr, obj, found) EXCEPT
            !.st = [@ EXCEPT !.ret = fr.params[1]]]
    ELSE [fr EXCEPT !.st = [@ EXCEPT !.ret = fr.params[1]]]

\* execute, read and name_get: the ids are the search's answer for a
\* domain, else the first parameter
execute_ids(fr, obj, found) ==
    IF issearchdomain(fr.params[1]) THEN execute_search(fr, obj, found)
    ELSE [fr EXCEPT !.st = [@ EXCEPT !.ret = fr.params[1]]]

\* execute, read and name_get: the parameters of the method
execute_read_params(fr, method) ==
    IF fr.st.exc # "" THEN fr
    ELSE IF Len(fr.params) > 1
         THEN [fr EXCEPT !.params = <<fr.st.ret>> \o Tail(@)]
    ELSE IF method = "read"
         THEN [fr EXCEPT !.params = <<fr.st.ret, Pop(fr.kwargs, "fields", None)>>,
                         !.kwargs = Without(@, {"fields"})]
    ELSE [fr EXCEPT !.params = <<fr.st.ret>>]

\* execute, method search: params = searchargs(params, kwargs, context);
\* context = None
execute_search_params(fr) ==
    IF Raised(searchargs(fr.params, fr.kwargs, fr.context))
    THEN [fr EXCEPT !.st = Raise(@, "ValueError")]
    ELSE [fr EXCEPT !.params = searchargs(fr.params, fr.kwargs, fr.context),
                    !.kwargs = searchargs_kwargs(fr.params, @, fr.context),
                    !.context = None]

\* execute, method search_count: params = searchargs(params)
execute_count_params(fr) ==
    IF Raised(searchargs(fr.params, EmptyMap, None))
    THEN [fr EXCEPT !.st = Raise(@, "ValueError")]
    ELSE [fr EXCEPT !.params = searchargs(fr.params, EmptyMap, None)]

\* execute, the branches on the method
execute_params(fr, obj, method, found) ==
    IF method \in {"read", "name_get"}
    THEN IF fr.params = <<>>
         THEN [fr EXCEPT !.st = Raise(@, "AssertionError")]
         ELSE execute_read_params(execute_ids(fr, obj, found), method)
    ELSE IF method = "search" THEN execute_search_params(fr)
    ELSE IF method = "search_count" THEN execute_count_params(fr)
    ELSE fr

\* if context: params = params + (context,)
execute_context(fr) ==
    IF fr.st.exc = "" /\ bool(fr.context)
    THEN [fr EXCEPT !.params = Append(@, fr.context)]
    ELSE fr

\* execute_call handing a keyword argument left in kwargs to the server
execute_call_leftover(fr, obj, method) ==
    SelfExecute(fr.st, "execute", obj, method,
                IF "foo" \in DOMAIN fr.kwargs
                THEN Append(fr.params, fr.kwargs["foo"]) ELSE fr.params,
                TRUE)

\* return self._execute(obj, method, *params): what is left in kwargs is
\* printed and ignored
execute_call(fr, obj, method) ==
    SelfExecute(fr.st, "execute", obj, method, fr.params, TRUE)

\* Client.execute(obj, method, *params, **kwargs)
execute(st, obj, method, params, kwargs, found) ==
    execute_call(execute_context(execute_params(Frame(st, params, kwargs),
                                                obj, method, found)),
                 obj, method)

----------------------------------------------------------------------------
(* RecordList: a Model, a list of ids and a context; its items and slices  *)

\* RecordList.__init__(res_model, ids, context)
NewRecordList(inst, ids, context) ==
    [inst |-> inst, ids |-> ids, context |-> context]

\* SliceBound taking a negative bound for the start of the list
SliceBound_from_start(bound, len, lower, upper) ==
    IF bound[2] < 0 THEN lower
    ELSE (IF bound[2] > upper THEN upper ELSE bound[2])

\* the sign-adjusted, clamped bound of a slice, as list slicing computes it:
\* a negative bound counts from the end
SliceBound(bound, len, lower, upper) ==
    IF bound[2] < 0
    THEN (IF bound[2] + len < lower THEN lower ELSE bound[2] + len)
    ELSE (IF bound[2] > upper THEN upper ELSE bound[2])

\* the step of slice(start, stop, step): 1 for None
SliceStep(step) == IF step = None THEN 1 ELSE step[2]

\* the first index of the slice and the index it stops before
SliceStart(start, step, len) ==
    IF SliceStep(step) > 0
    THEN (IF start = None THEN 0 ELSE SliceBound(start, len, 0, len))
    ELSE (IF start = None THEN len - 1 ELSE SliceBound(start, len, -1, len - 1))
SliceStop(stop, step, len) ==
    IF SliceStep(step) > 0
    THEN (IF stop = None THEN len ELSE SliceBound(stop, len, 0, len))
    ELSE (IF stop = None THEN -1 ELSE SliceBound(stop, len, -1, len - 1))

\* range(first, stop, step)
RECURSIVE range(_, _, _)
range(first, stop, step) ==
    IF (step > 0 /\ first >= stop) \/ (step < 0 /\ first <= stop) THEN <<>>
    ELSE <<first>> \o range(first + step, stop, step)

\* ids[start:stop:step]; Python counts the items from 0
SliceOf(ids, start, stop, step) ==
    [k \in DOMAIN range(SliceStart(start, step, Len(ids)),
                        SliceStop(stop, step, Len(ids)), SliceStep(step)) |->
        ids[range(SliceStart(start, step, Len(ids)),
                  SliceStop(stop, step, Len(ids)), SliceStep(step))[k] + 1]]

\* RecordList.__getitem__(slice(start, stop, step)): a new RecordList
getitem_slice(st, list, start, stop, step) ==
    [st EXCEPT !.ret = [cls |-> "RecordList", inst |-> list.inst,
                        ids |-> SliceOf(list.ids, start, stop, step),
                        context |-> list.context]]

\* RecordList.__getitem__(key) with an integer: a Record, IndexError when
\* the list has no such item
getitem_index(st, list, key) ==
    IF key >= Len(list.ids) \/ key < -Len(list.ids)
    THEN Raise(st, "IndexError")
    ELSE [st EXCEPT !.ret = [cls |-> "Record", inst |-> list.inst,
                             id |-> list.ids[IF key < 0
                                             THEN key + Len(list.ids) + 1
                                             ELSE key + 1],
                             context |-> list.context]]

\* self._ids as the Python list handed to execute
IdList(ids) == List([i \in DOMAIN ids |-> PyInt(ids[i])])

\* the wrapper of RecordList.__getattr__: if context:
\* kwargs.setdefault('context', context)
wrapper_kwargs(context, kwargs) ==
    IF bool(context) /\ "context" \notin DOMAIN kwargs
    THEN MapPut(kwargs, "context", context)
    ELSE kwargs

\* RecordList.__getattr__(attr)(*params, **kwargs):
\* client.execute(model_name, attr, self._ids, *params, **kwargs)
RecordListGetattr(st, list, attr, params, kwargs, found) ==
    execute(st, st.self.insts[list.inst].name, attr,
            <<IdList(list.ids)>> \o params,
            wrapper_kwargs(list.context, kwargs), found)

----------------------------------------------------------------------------
(* Record: copy and the display name, through Client.execute               *)

\* Client.__getattr__(method) for a lowercase name, and the call of the
\* wrapper it returns: wrapper(obj, *params, **kwargs) is
\* self.execute(obj, method, *params, **kwargs)
ClientMethod(st, method, obj, params, kwargs, found) ==
    execute(st, obj, method, params, kwargs, found)

\* Record.copy, last statement: return Record(self._model, new_id)
copy_record(st, h) ==
    IF st.exc # "" THEN st
    ELSE [st EXCEPT !.recs = Append(@, NewRecord(st.recs[h].inst, st.ret[2])),
                    !.ret = Len(st.recs) + 1]

\* Record.copy(default, context): self.client.copy(self._model_name, 'copy',
\* self.id, default=default, context=context); new_id is what the server
\* answers
RecordCopy(st, h, default, context, new_id) ==
    copy_record(Answer(ClientMethod(st, "copy",
                                    st.self.insts[st.recs[h].inst].name,
                                    <<Str(<<"c", "o", "p", "y">>),
                                      PyInt(st.recs[h].id)>>,
                                    [n \in {"default", "context"} |->
                                        IF n = "default" THEN default
                                        ELSE context],
                                    List(<<>>)),
                       PyInt(new_id)),
                h)

\* Record._get_name(): name_get of [self.id] through the Model; any
\* exception is caught and gives the placeholder '[id] -' (flag: the name
\* is the one of the server)
_get_name(st, h) ==
    Caught(execute(st, st.self.insts[st.recs[h].inst].name, "name_get",
                   <<List(<<PyInt(st.recs[h].id)>>)>>, EmptyMap, List(<<>>)))

\* Record.__getattr__('_name'), after self._model._keys: the name is kept
\* in __dict__
getattr_name(st, h) ==
    IF st.exc # "" THEN st
    ELSE [_get_name(st, h) EXCEPT
            !.recs[h].dict =
                MapPut(@, "_name", IF _get_name(st, h).flag THEN "name"
                                   ELSE "placeholder")]

\* str(record) = self._name: the value in __dict__ when it is there, else
\* Record.__getattr__
RecordStr(st, h) ==
    IF "_name" \in DOMAIN st.recs[h].dict THEN st
    ELSE getattr_name(_keys(st, st.recs[h].inst), h)

----------------------------------------------------------------------------
(* Client: authentication.  st.uid and st.rpw are the locals uid and       *)
(* password of Client._auth.                                               *)

cache_key(user) == <<Server, Db, user>>

\* Client._check_valid(uid, password): the probe, False on Fault
_check_valid(st, uid, pw) ==
    Caught(ObjectExecute(st, "probe", uid, pw, "res.users",
                         "fields_get_keys", "-", TRUE))

\* a variant of _auth_cached with one cache per Client: the entry is used
\* only by the Client that is logged in as the user
_auth_cached_own(st, user) ==
    IF cache_key(user) \in DOMAIN st.cache /\ st.self.user = user
    THEN [st EXCEPT !.uid = st.cache[cache_key(user)][1],
                    !.rpw = st.cache[cache_key(user)][2]]
    ELSE [st EXCEPT !.uid = UidNone, !.rpw = NoPassword]

\* uid, password = self._login.cache.get(cache_key) or (None, None)
_auth_cached(st, user) ==
    IF cache_key(user) \in DOMAIN st.cache
    THEN [st EXCEPT !.uid = st.cache[cache_key(user)][1],
                    !.rpw = st.cache[cache_key(user)][2]]
    ELSE [st EXCEPT !.uid = UidNone, !.rpw = NoPassword]

\* the result of self.read('res.users', [('login', '=', user)], 'id password')
_auth_found(st, user) ==
    IF st.exc # "" THEN st
    ELSE IF user \in SrvUsers
         THEN [st EXCEPT !.uid = Uid(user), !.rpw = srvPw[user]]
    ELSE [st EXCEPT !.uid = UidFalse]

\* ... and self.access('res.users', 'write'): read the table res.users
_auth_read(st, user) ==
    IF st.exc # "" \/ ~st.flag THEN st
    ELSE _auth_found(read(st, "res.users", user), user)

\* if not uid and self.access('res.users', 'write'): ...
_auth_lookup(st, user) ==
    IF Truthy(st.uid) THEN st
    ELSE _auth_read(access(st, "res.users", "write"), user)

\* if not password and uid is not False: password = getpass(...)
_auth_prompt(st, typed) ==
    IF st.exc = "" /\ st.rpw = NoPassword /\ st.uid # UidFalse
    THEN [st EXCEPT !.rpw = typed, !.prompted = TRUE]
    ELSE st

\* a variant of _auth_resolve that consults the cache although a password is given
_auth_resolve_cachefirst(st, user, password, typed) ==
    _auth_prompt(_auth_lookup(_auth_cached(st, user), user),
                 IF password # NoPassword THEN password ELSE typed)

\* the first half of Client._auth: the uid and password to try
_auth_resolve(st, user, password, typed) ==
    IF password # NoPassword
    THEN [st EXCEPT !.uid = UidNone, !.rpw = password]
    ELSE _auth_prompt(_auth_lookup(_auth_cached(st, user), user), typed)

\* a variant of _auth_checked that keeps the rejected entry in the cache
_auth_checked_keep(st, user) ==
    IF st.flag THEN st ELSE [st EXCEPT !.uid = UidFalse]

\* a variant of _auth_checked that falls through to a standard login
_auth_checked_retry(st, user) ==
    IF st.flag THEN st
    ELSE [st EXCEPT !.cache = MapDel(@, cache_key(user)),
                    !.calls = Append(@, Call("proxy", "common", "login",
                                             UidNone, st.rpw, "-", "-", user)),
                    !.uid = SrvLogin(user, st.rpw)]

\* if not self._check_valid(uid, password): forget the entry, uid = False
_auth_checked(st, user) ==
    IF st.flag THEN st
    ELSE [st EXCEPT !.cache = MapDel(@, cache_key(user)), !.uid = UidFalse]

\* uid = self.common.login(self._db, user, password)
_auth_logged(st, user) ==
    IF st.exc # "" THEN st
    ELSE [st EXCEPT !.uid = SrvLogin(user, st.rpw)]

\* if uid: check the password / elif uid is None: do a standard login
_auth_verify(st, user) ==
    IF st.exc # "" THEN st
    ELSE IF Truthy(st.uid)
         THEN _auth_checked(_check_valid(st, st.uid, st.rpw), user)
    ELSE IF st.uid = UidNone
         THEN _auth_logged(Remote(st, Call("proxy", "common", "login", UidNone,
                                           st.rpw, "-", "-", user), TRUE),
                           user)
    ELSE st

\* a variant of _auth_store that stores whatever _auth is about to return
_auth_store_always(st, user) ==
    IF st.exc = ""
    THEN [st EXCEPT !.cache = MapPut(@, cache_key(user), <<st.uid, st.rpw>>)]
    ELSE st

\* if uid: self._login.cache[cache_key] = (uid, password)
_auth_store(st, user) ==
    IF st.exc = "" /\ Truthy(st.uid)
    THEN [st EXCEPT !.cache = MapPut(@, cache_key(user), <<st.uid, st.rpw>>)]
    ELSE st

\* Client._auth(user, password): returns (uid, password) in st.uid, st.rpw
_auth(st, user, password, typed) ==
    _auth_store(_auth_verify(_auth_resolve(st, user, password, typed), user),
                user)

\* a variant of login_bind without the early return on uid is False
login_bind_always(st, user) ==
    IF st.exc # "" THEN st
    ELSE [st EXCEPT !.self.user = user,
                    !.self.sess = Session(st.uid, st.rpw),
                    !.ret = IF st.uid = UidFalse THEN UidNone ELSE st.uid]

\* Client.login(user, password), after self._auth: None (here UidNone) when
\* uid is False, else the user and the authenticated endpoints are rebound
login_bind(st, user) ==
    IF st.exc # "" THEN st
    ELSE IF st.uid = UidFalse THEN [st EXCEPT !.ret = UidNone]
    ELSE [st EXCEPT !.self.user = user,
                    !.self.sess = Session(st.uid, st.rpw),
                    !.ret = st.uid]

\* Client.login(user, password)
login(st, user, password, typed) ==
    login_bind(_auth(st, user, password, typed), user)

\* Client.__init__, after self._login(user, password): self._models = {}
init_models(st) ==
    IF st.exc # "" THEN st
    ELSE [st EXCEPT !.self.hasModels = TRUE, !.self.models = EmptyMap]

\* Client.__init__, after the server version: the proxies, then the login
init_login(st, user, password, typed) ==
    IF st.exc # "" THEN st
    ELSE init_models(login([st EXCEPT
                                !.self.ver = major_version(st.version),
                                !.self.proxies =
                                    [name \in Endpoints |->
                                        get_proxy(major_version(st.version),
                                                  name)]],
                           user, password, typed))

\* Client.__init__(server, db, user, password)
__init__(st, user, password, typed) ==
    init_login(Remote([st EXCEPT !.self = [NoClient EXCEPT !.alive = TRUE]],
                      Call("proxy", "db", "server_version", UidNone, "",
                           "-", "-", "-"), TRUE),
               user, password, typed)

\* c = Client(...): when __init__ raises, no object is returned
Constructed(st, old) == IF st.exc = "" THEN st ELSE [st EXCEPT !.self = old]

----------------------------------------------------------------------------
(* The operations of the caller, one action each *)

Begin(self, cch, schema, flt) ==
    [self |-> self, cache |-> cch, schema |-> schema,
     version |-> ServerVersion, calls |-> <<>>,
     exc |-> "", flt |-> flt, prompted |-> FALSE, ret |-> 0, uid |-> UidNone,
     rpw |-> "", flag |-> FALSE, recs |-> <<>>]

Start(c, flt) ==
    [Begin(clients[c], cache, srvSchema, flt) EXCEPT !.recs = recs,
                                                     !.version = srvVersion]

\* the call the transport fails (0: none) in an operation that issues at most
\* n remote calls
FaultAt(n) == 0..(IF n < MaxFaultAt THEN n ELSE MaxFaultAt)

\* what the caller did and observed: the operation, its arguments (a, b, and
\* what the user would type at a prompt), whether the session cache held the
\* key when it started, and its outcome (flt: the call the transport failed)
Op(name, c, a, b, typed, hit, st) ==
    [name |-> name, c |-> c, a |-> a, b |-> b, typed |-> typed, hit |-> hit,
     flt |-> IF st.flt <= Len(st.calls) THEN st.flt ELSE 0,
     ret |-> st.ret, uid |-> st.uid, rpw |-> st.rpw,
     flag |-> st.flag, exc |-> st.exc, prompted |-> st.prompted]

NoOp ==
    [name |-> "", c |-> "", a |-> "", b |-> "", typed |-> "", hit |-> FALSE,
     flt |-> 0, ret |-> 0, uid |-> UidNone, rpw |-> "", flag |-> FALSE,
     exc |-> "", prompted |-> FALSE]

\* the operations that hand a Model to the caller
Routes == {"model", "Model", "attr", "models"}

\* history: the Model instances handed to the caller for each model name
\* since the last upgrade/install/uninstall was called
Given(st, name, a) ==
    IF name = "upgrade" THEN [n \in ModelSet |-> {}]
    ELSE IF st.exc # "" \/ name \notin Routes THEN st.self.given
    ELSE IF name = "models"
         THEN [n \in ModelSet |->
                 IF Like(a, n) THEN st.self.given[n] \cup {st.self.models[n]}
                 ELSE st.self.given[n]]
    ELSE [st.self.given EXCEPT ![st.self.insts[st.ret].name] = @ \cup {st.ret}]

\* history: the (uid, password) of the last login that succeeded on the
\* Client object, as its caller observed it (login returned the uid)
LastOk(st, name) ==
    IF name \in {"login", "Client"} /\ st.exc = "" /\ Truthy(st.ret)
    THEN Session(st.ret, st.rpw)
    ELSE st.self.lastOk

Observed(st, name, a) ==
    [st.self EXCEPT !.lastOk = LastOk(st, name), !.given = Given(st, name, a)]

Finish(c, st, name, a, b, typed, hit) ==
    /\ Len(st.self.insts) <= MaxInstances
    /\ clients' = [clients EXCEPT ![c] = Observed(st, name, a)]
    /\ cache' = st.cache
    /\ srvSchema' = st.schema
    /\ recs' = st.recs
    /\ calls' = st.calls
    /\ op' = Op(name, c, a, b, typed, hit, st)

\* c = Client(server, db, user, password): when __init__ raises, the caller's
\* name c keeps what it was bound to
NewClient(c, user, password, typed, flt) ==
    /\ Finish(c, Constructed(__init__(Start(c, flt), user, password, typed),
                              clients[c]),
              "Client", user, password, typed, cache_key(user) \in DOMAIN cache)
    /\ UNCHANGED <<srvPw, srvVersion, args, lists>>

\* c.login(user, password)
Login(c, user, password, typed, flt) ==
    /\ clients[c].alive
    /\ Finish(c, login(Start(c, flt), user, password, typed),
              "login", user, password, typed, cache_key(user) \in DOMAIN cache)
    /\ UNCHANGED <<srvPw, srvVersion, args, lists>>

\* c.execute(obj, method, ids or domain)
ClientExecute(c, obj, m, isDomain, flt) ==
    /\ clients[c].alive
    /\ Finish(c, Execute(Start(c, flt), obj, m, isDomain, "arg"),
              "execute", obj, m, "", FALSE)
    /\ UNCHANGED <<srvPw, srvVersion, args, lists>>

\* c.access(obj, mode)
ClientAccess(c, obj, mode, flt) ==
    /\ clients[c].alive
    /\ Finish(c, access(Start(c, flt), obj, mode), "access", obj, mode, "", FALSE)
    /\ UNCHANGED <<srvPw, srvVersion, args, lists>>

\* c.model(name)
ClientModel(c, name, flt) ==
    /\ clients[c].alive
    /\ Finish(c, model(Start(c, flt), name), "model", name, "", "", FALSE)
    /\ UNCHANGED <<srvPw, srvVersion, args, lists>>

\* Model(c, name)
ModelCall(c, name, flt) ==
    /\ clients[c].alive
    /\ Finish(c, ModelNew(Start(c, flt), name), "Model", name, "", "", FALSE)
    /\ UNCHANGED <<srvPw, srvVersion, args, lists>>

\* c.models(name)
ClientModels(c, name, flt) ==
    /\ clients[c].alive
    /\ Finish(c, models(Start(c, flt), name), "models", name, "", "", FALSE)
    /\ UNCHANGED <<srvPw, srvVersion, args, lists>>

\* c.ResPartner, c.ResUsers
ClientAttr(c, method, flt) ==
    /\ clients[c].alive
    /\ Finish(c, ClientGetattr(Start(c, flt), method), "attr", method, "", "", FALSE)
    /\ UNCHANGED <<srvPw, srvVersion, args, lists>>

\* m.keys() on a Model the caller holds
ModelKeys(c, inst, flt) ==
    /\ clients[c].alive
    /\ inst \in DOMAIN clients[c].insts
    /\ Finish(c, [_keys(Start(c, flt), inst) EXCEPT !.ret = inst],
              "keys", clients[c].insts[inst].name, "", "", FALSE)
    /\ UNCHANGED <<srvPw, srvVersion, args, lists>>

\* m.fields() on a Model the caller holds
ModelFields(c, inst, flt) ==
    /\ clients[c].alive
    /\ inst \in DOMAIN clients[c].insts
    /\ Finish(c, [_fields(Start(c, flt), inst) EXCEPT !.ret = inst],
              "fields", clients[c].insts[inst].name, "", "", FALSE)
    /\ UNCHANGED <<srvPw, srvVersion, args, lists>>

\* c.upgrade(...), c.install(...), c.uninstall(...)
Upgrade(c, button, found, pending, flt) ==
    /\ clients[c].alive
    /\ srvSchema < MaxUpgrades
    /\ Finish(c, _upgrade(Start(c, flt), button, found, pending),
              "upgrade", button, "", "", FALSE)
    /\ UNCHANGED <<srvPw, srvVersion, args, lists>>

\* r = m.browse(id) on a Model the caller holds
Browse(c, inst, id) ==
    /\ clients[c].alive
    /\ inst \in DOMAIN clients[c].insts
    /\ Len(recs) < MaxRecords
    /\ Finish(c, browse(Start(c, 0), inst, id),
              "browse", clients[c].insts[inst].name, "", "", FALSE)
    /\ UNCHANGED <<srvPw, srvVersion, args, lists>>

\* r.f on a Record the caller holds; `empty`, the server holds no value
RecGetattr(c, h, f, empty, flt) ==
    /\ clients[c].alive
    /\ h \in DOMAIN recs
    /\ Finish(c, [RecordGetattr(Start(c, flt), h, f, empty) EXCEPT !.ret = h],
              "getattr", f, "", "", f \in DOMAIN recs[h].dict)
    /\ UNCHANGED <<srvPw, srvVersion, args, lists>>

\* r[f]
RecGetitem(c, h, f, empty, flt) ==
    /\ clients[c].alive
    /\ h \in DOMAIN recs
    /\ Finish(c, [RecordGetitem(Start(c, flt), h, f, empty) EXCEPT !.ret = h],
              "getitem", f, "", "", f \in DOMAIN recs[h].dict)
    /\ UNCHANGED <<srvPw, srvVersion, args, lists>>

\* r.read()
RecRead(c, h, empty, flt) ==
    /\ clients[c].alive
    /\ h \in DOMAIN recs
    /\ Finish(c, [RecordRead(Start(c, flt), h, empty) EXCEPT !.ret = h],
              "Record.read", "", "", "", FALSE)
    /\ UNCHANGED <<srvPw, srvVersion, args, lists>>

\* r.write(values)
RecWrite(c, h, flt) ==
    /\ clients[c].alive
    /\ h \in DOMAIN recs
    /\ Finish(c, [RecordWrite(Start(c, flt), h) EXCEPT !.ret = h],
              "Record.write", "", "", "", FALSE)
    /\ UNCHANGED <<srvPw, srvVersion, args, lists>>

\* r.unlink()
RecUnlink(c, h, flt) ==
    /\ clients[c].alive
    /\ h \in DOMAIN recs
    /\ Finish(c, [RecordUnlink(Start(c, flt), h) EXCEPT !.ret = h],
              "Record.unlink", "", "", "", FALSE)
    /\ UNCHANGED <<srvPw, srvVersion, args, lists>>

\* r.f = value
RecSetattr(c, h, f, flt) ==
    /\ clients[c].alive
    /\ h \in DOMAIN recs
    /\ Finish(c, [RecordSetattr(Start(c, flt), h, f) EXCEPT !.ret = h],
              "setattr", f, "", "", f \in DOMAIN recs[h].dict)
    /\ UNCHANGED <<srvPw, srvVersion, args, lists>>

\* m.browse(ids).write(values), m.browse(ids).unlink(): a RecordList of a
\* Model the caller holds, its ids those of the Records
ListCall(c, inst, attr, flt) ==
    /\ clients[c].alive
    /\ inst \in DOMAIN clients[c].insts
    /\ Finish(c, [RecordListCall(Start(c, flt), inst, attr) EXCEPT !.ret = inst],
              "RecordList", attr, "", "", FALSE)
    /\ UNCHANGED <<srvPw, srvVersion, args, lists>>

\* l[start:stop:step] on a RecordList the caller holds
ListSlice(c, l, start, stop, step) ==
    /\ clients[c].alive
    /\ l \in DOMAIN lists
    /\ Finish(c, getitem_slice(Start(c, 0), lists[l], start, stop, step),
              "slice", <<start, stop, step>>, l, "", FALSE)
    /\ UNCHANGED <<srvPw, srvVersion, args, lists>>

\* l[key] on a RecordList the caller holds
ListIndex(c, l, key) ==
    /\ clients[c].alive
    /\ l \in DOMAIN lists
    /\ Finish(c, getitem_index(Start(c, 0), lists[l], key),
              "index", key, l, "", FALSE)
    /\ UNCHANGED <<srvPw, srvVersion, args, lists>>

\* r2 = r.copy(default, context=context) on a Record the caller holds
RecCopy(c, h, default, context, new_id, flt) ==
    /\ clients[c].alive
    /\ h \in DOMAIN recs
    /\ Len(recs) < MaxRecords
    /\ Finish(c, RecordCopy(Start(c, flt), h, default, context, new_id),
              "Record.copy", h, default, "", FALSE)
    /\ UNCHANGED <<srvPw, srvVersion, args, lists>>

\* str(r)
RecStr(c, h, flt) ==
    /\ clients[c].alive
    /\ h \in DOMAIN recs
    /\ Finish(c, [RecordStr(Start(c, flt), h) EXCEPT !.ret = h],
              "Record.str", "", "", "", "_name" \in DOMAIN recs[h].dict)
    /\ UNCHANGED <<srvPw, srvVersion, args, lists>>

\* c.db.name(...), c.common.name(...), c._object.name(...),
\* c._wizard.name(...), c._report.name(...)
ServiceCall(c, endpoint, name, flt) ==
    /\ clients[c].alive
    /\ Finish(c, ServiceGetattr(Start(c, flt), endpoint, name),
              "service", endpoint, name, "", FALSE)
    /\ UNCHANGED <<srvPw, srvVersion, args, lists>>

\* l.read(), l.name_get(), l.write(values), l.unlink(), l.foo() on a
\* RecordList the caller holds; `found`, the ids the server would answer to
\* a search
ListMethod(c, l, attr, params, found, flt) ==
    /\ clients[c].alive
    /\ l \in DOMAIN lists
    /\ Finish(c, RecordListGetattr(Start(c, flt), lists[l], attr, params,
                                   EmptyMap, found),
              "list.method", attr, l, "", FALSE)
    /\ UNCHANGED <<srvPw, srvVersion, args, lists>>

\* ---- the arguments the caller gives to execute and to searchargs ----

\* the texts a term string is made of: field names, some made of the
\* letters of an operator, runs of spaces, values
FieldTexts == {<<"a">>, <<"i", "n">>, <<"l", "o", "g", "i", "n">>}
Spaces == {<<" ">>, <<" ", " ">>}
ValueTexts == {<<"1">>, <<"x">>}

\* 'field op value'
TermText(field, space, o, value) ==
    field \o space \o TermOperators[o] \o space \o value

\* term strings that are not of that form
OtherTexts ==
    {<<>>, <<"a">>, <<"a", " ", "b">>, <<"a", " ", "1">>,
     <<"l", "o", "g", "i", "n">>, <<"a", " ", "b", " ", "=", " ", "1">>,
     <<" ", "a", "=", "1", " ">>}

\* the terms of the domain lists given to execute: two term strings, one
\* that parses and one that does not, a connector, a 3-tuple, an id
GoodTerm == Str(<<"a", " ", "=", " ", "1">>)
BadTerm == Str(<<"a">>)
DomainTerms ==
    {GoodTerm, BadTerm, Str(<<"&">>),
     Tuple(<<Str(<<"a">>), Str(<<"=">>), PyInt(1)>>), PyInt(1)}

\* the lists of at most MaxTerms of them
DomainLists ==
    {List(items) : items \in UNION {[1..n -> DomainTerms] : n \in 0..MaxTerms}}

\* the first parameter of execute: a list, a term string, the empty
\* string, a string of digits, a tuple, a list of digit strings, an id, None
FirstParams ==
    DomainLists \cup
    {GoodTerm, BadTerm, Str(<<>>), Str(<<"1", "2">>), Tuple(<<>>),
     Tuple(<<Str(<<"a">>), Str(<<"=">>), PyInt(1)>>),
     List(<<Str(<<"1">>)>>), PyInt(1), None}

\* the second parameter, when there is one
SecondParam == List(<<Str(<<"n", "a", "m", "e">>)>>)

ExecParams ==
    {<<>>} \cup {<<p>> : p \in FirstParams}
           \cup {<<p, SecondParam>> : p \in FirstParams}

ExecMethods == {"read", "name_get", "search", "search_count", "write"}

\* the keyword arguments: at most MaxKwargs names, each with its value; a
\* context is an empty dict or one with a key
KnownKwargs == {"context", "offset", "limit", "order", "fields"}
KwargNames == KnownKwargs \cup {"foo"}
Contexts == {Dict(<<>>), Dict(<<"lang">>)}
KwargValue(name, context) ==
    CASE name = "context" -> context
      [] name = "offset" -> PyInt(2)
      [] name = "limit" -> PyInt(3)
      [] name = "order" -> Str(<<"i", "d">>)
      [] name = "fields" -> List(<<Str(<<"i", "d">>)>>)
      [] OTHER -> PyInt(9)
ExecKwargs ==
    {[n \in names |-> KwargValue(n, context)] :
        names \in {k \in SUBSET KwargNames : Cardinality(k) <= MaxKwargs},
        context \in Contexts}

\* the id lists the server answers to a search
Found == {List(<<>>), List(<<PyInt(4), PyInt(5)>>)}

NoTerm == [field |-> <<>>, o |-> 0, value |-> <<>>]
NoArgs ==
    [kind |-> "", method |-> "", params |-> <<>>, kwargs |-> EmptyMap,
     found |-> List(<<>>), flt |-> 0, term |-> NoTerm, done |-> FALSE,
     out |-> <<>>]

\* c.execute('res.partner', method, *params, **kwargs), to be called
ExecArgs(method, params, kwargs, found, flt) ==
    [NoArgs EXCEPT !.kind = "execute", !.method = method, !.params = params,
                   !.kwargs = kwargs, !.found = found, !.flt = flt]

\* searchargs((domain,)), to be called
SearchArgs(domain, term) ==
    [NoArgs EXCEPT !.kind = "searchargs", !.params = <<domain>>,
                   !.term = term]

\* c.execute(obj, method, *params, **kwargs) with the arguments in args
ExecuteArgs(c, obj) ==
    /\ args.kind = "execute" /\ ~args.done
    /\ clients[c].alive
    /\ Finish(c, execute(Start(c, args.flt), obj, args.method, args.params,
                         args.kwargs, args.found),
              "execute", obj, args.method, "", FALSE)
    /\ args' = [args EXCEPT !.done = TRUE]
    /\ UNCHANGED <<srvPw, srvVersion, lists>>

\* searchargs((domain,)) with the domain in args
Searchargs ==
    /\ args.kind = "searchargs" /\ ~args.done
    /\ args' = [args EXCEPT !.done = TRUE,
                            !.out = searchargs(args.params, EmptyMap, None)]
    /\ op' = [NoOp EXCEPT !.name = "searchargs"]
    /\ calls' = <<>>
    /\ UNCHANGED <<srvPw, srvSchema, srvVersion, cache, clients, recs, lists>>

\* somebody changes the password of a user on the server
SrvSetPassword(user, password) ==
    /\ srvPw[user] # password
    /\ srvPw' = [srvPw EXCEPT ![user] = password]
    /\ op' = [NoOp EXCEPT !.name = "passwd", !.a = user, !.b = password]
    /\ calls' = <<>>
    /\ UNCHANGED <<srvSchema, srvVersion, cache, clients, recs, args, lists>>

----------------------------------------------------------------------------
(* Authentication and the execute funnel: from a process that holds no     *)
(* Client yet                                                              *)

Init ==
    /\ srvPw = [u \in SrvUsers |-> "p1"]
    /\ srvSchema = 0
    /\ srvVersion = ServerVersion
    /\ cache = EmptyMap
    /\ clients = [c \in Clients |-> NoClient]
    /\ recs = <<>>
    /\ op = NoOp
    /\ calls = <<>>
    /\ args = NoArgs
    /\ lists = <<>>

\* the password argument and what the user would type at the prompt (read
\* only when the password is omitted)
Credentials ==
    {<<p, NoPassword>> : p \in Passwords} \cup {<<NoPassword, t>> : t \in Passwords}

Next ==
    \/ \E c \in Clients, u \in Logins, pt \in Credentials, f \in 0..MaxFaultAt :
          NewClient(c, u, pt[1], pt[2], f)
    \/ \E c \in Clients, u \in Logins, pt \in Credentials, f \in 0..MaxFaultAt :
          Login(c, u, pt[1], pt[2], f)
    \/ \E c \in Clients, d \in BOOLEAN, f \in FaultAt(2) :
          ClientExecute(c, "res.partner", IF d THEN "read" ELSE "write", d, f)
    \/ \E c \in Clients, o \in {"res.users", "no.such"},
          m \in {"read", "write"}, f \in FaultAt(3) :
          ClientAccess(c, o, m, f)
    \/ \E p \in Passwords : SrvSetPassword("admin", p)

Spec == Init /\ [][Next]_vars

----------------------------------------------------------------------------
(* The model registry: from a process that has connected one Client,      *)
(* c = Client(server, db, 'admin', 'p1')                                   *)

Connected ==
    __init__(Begin(NoClient, EmptyMap, 0, 0), "admin", "p1", NoPassword)

ConnectedState ==
    /\ srvPw = [u \in SrvUsers |-> "p1"]
    /\ srvSchema = 0
    /\ srvVersion = ServerVersion
    /\ cache = Connected.cache
    /\ clients = [c \in Clients |-> Observed(Connected, "Client", "admin")]
    /\ recs = <<>>
    /\ op = Op("Client", "c1", "admin", "p1", NoPassword, FALSE, Connected)
    /\ calls = Connected.calls

InitConnected == ConnectedState /\ args = NoArgs /\ lists = <<>>

\* the Model handles of a name the caller may hold: every instance created
Handles(c, name) ==
    {i \in DOMAIN clients[c].insts : clients[c].insts[i].name = name}

NextModel ==
    \/ \E c \in Clients, n \in {"res.partner", "no.such"}, f \in FaultAt(2) :
          ClientModel(c, n, f)
    \/ \E c \in Clients, f \in FaultAt(2) :
          ModelCall(c, "res.partner", f)
    \/ \E c \in Clients, n \in {"res.partner", ""}, f \in FaultAt(2) :
          ClientModels(c, n, f)
    \/ \E c \in Clients, f \in FaultAt(2) :
          ClientAttr(c, "ResPartner", f)
    \/ \E c \in Clients : \E i \in Handles(c, "res.partner"), f \in FaultAt(1) :
          ModelKeys(c, i, f)
    \/ \E c \in Clients : \E i \in Handles(c, "res.partner"), f \in FaultAt(1) :
          ModelFields(c, i, f)
    \/ \E c \in Clients, found \in BOOLEAN, pending \in BOOLEAN,
          f \in 0..MaxFaultAt :
          Upgrade(c, "button_upgrade", found, pending, f)

SpecModel == InitConnected /\ [][NextModel]_vars

----------------------------------------------------------------------------
(* Records: from the same connected Client *)

\* the field names the caller uses: one the model has in every version and
\* the one an upgrade adds
FieldNames == {"name", "x_new"}
RecordId == 1

NextRec ==
    \/ \E c \in Clients, f \in FaultAt(1) : ClientAttr(c, "ResPartner", f)
    \/ \E c \in Clients : \E i \in Handles(c, "res.partner") :
          Browse(c, i, RecordId)
    \/ \E c \in Clients, h \in DOMAIN recs, n \in FieldNames, e \in {FALSE},
          f \in FaultAt(1) :
          RecGetattr(c, h, n, e, f)
    \/ \E c \in Clients, h \in DOMAIN recs, n \in FieldNames, e \in {FALSE},
          f \in FaultAt(1) :
          RecGetitem(c, h, n, e, f)
    \/ \E c \in Clients, h \in DOMAIN recs, e \in {FALSE}, f \in FaultAt(1) :
          RecRead(c, h, e, f)
    \/ \E c \in Clients, h \in DOMAIN recs, f \in FaultAt(1) : RecWrite(c, h, f)
    \/ \E c \in Clients, h \in DOMAIN recs, f \in FaultAt(1) : RecUnlink(c, h, f)
    \/ \E c \in Clients, h \in DOMAIN recs, n \in FieldNames, f \in FaultAt(1) :
          RecSetattr(c, h, n, f)
    \/ \E c \in Clients : \E i \in Handles(c, "res.partner"),
          a \in {"write", "unlink"}, f \in FaultAt(1) :
          ListCall(c, i, a, f)
    \/ \E c \in Clients, a \in {"write", "unlink"}, f \in FaultAt(1) :
          ClientExecute(c, "res.partner", a, FALSE, f)
    \/ \E c \in Clients, f \in {0, MaxFaultAt} :
          Upgrade(c, "button_upgrade", TRUE, TRUE, f)

SpecRec == InitConnected /\ [][NextRec]_vars

----------------------------------------------------------------------------
(* Reading Records: browse, the reads of a field, Record.read and what     *)
(* comes between them, a write and an upgrade                              *)

NextRead ==
    \/ \E c \in Clients : ClientAttr(c, "ResPartner", 0)
    \/ \E c \in Clients : \E i \in Handles(c, "res.partner") :
          Browse(c, i, RecordId)
    \/ \E c \in Clients, h \in DOMAIN recs, n \in FieldNames, f \in FaultAt(1) :
          RecGetattr(c, h, n, FALSE, f)
    \/ \E c \in Clients, h \in DOMAIN recs, n \in FieldNames :
          RecGetitem(c, h, n, FALSE, 0)
    \/ \E c \in Clients, h \in DOMAIN recs : RecRead(c, h, FALSE, 0)
    \/ \E c \in Clients, h \in DOMAIN recs : RecWrite(c, h, 0)
    \/ \E c \in Clients : Upgrade(c, "button_upgrade", TRUE, TRUE, 0)

SpecRead == InitConnected /\ [][NextRead]_vars

----------------------------------------------------------------------------
(* The arguments of execute: from the same connected Client, about to     *)
(* call execute or searchargs with arguments drawn from the sets above     *)

\* the answer of the server matters to read and name_get only, and the
\* transport fails the first call of calls without keyword arguments
InitArgs ==
    /\ ConnectedState
    /\ lists = <<>>
    /\ \/ \E m \in ExecMethods, p \in ExecParams, k \in ExecKwargs,
             r \in Found, f \in 0..1 :
             /\ m \in {"read", "name_get", "write"} => p # <<>>
             /\ m \notin {"read", "name_get"} => r = List(<<>>)
             /\ f = 1 => DOMAIN k = {}
             /\ args = ExecArgs(m, p, k, r, f)
       \/ \E d \in DomainLists : args = SearchArgs(d, NoTerm)
       \/ \E t \in OtherTexts : args = SearchArgs(List(<<Str(t)>>), NoTerm)
       \/ \E field \in FieldTexts, space \in Spaces,
             o \in DOMAIN TermOperators, value \in ValueTexts :
             args = SearchArgs(List(<<Str(TermText(field, space, o, value))>>),
                               [field |-> field, o |-> o, value |-> value])

NextArgs ==
    \/ \E c \in Clients : ExecuteArgs(c, "res.partner")
    \/ Searchargs

SpecArgs == InitArgs /\ [][NextArgs]_vars

----------------------------------------------------------------------------
(* Items, slices and methods of a RecordList: from a process that has      *)
(* connected a Client and holds l = client.ResPartner.browse(ids,          *)
(* context=context); the list without ids is what browse returns for a     *)
(* domain that matches no record, and what an empty slice is               *)

\* the ids of the list: the first n of 10, 11, 12, ...
IdsOf(n) == [i \in 1..n |-> 9 + i]

\* m = client.ResPartner
WithModel ==
    ClientGetattr(Begin(Connected.self, Connected.cache, 0, 0), "ResPartner")

InitList ==
    /\ srvPw = [u \in SrvUsers |-> "p1"]
    /\ srvSchema = 0
    /\ srvVersion = ServerVersion
    /\ cache = WithModel.cache
    /\ clients = [c \in Clients |-> Observed(WithModel, "attr", "ResPartner")]
    /\ recs = <<>>
    /\ op = [NoOp EXCEPT !.name = "browse", !.c = "c1", !.a = "res.partner"]
    /\ calls = <<>>
    /\ args = NoArgs
    /\ \E n \in 0..MaxIds, context \in {None, Dict(<<"lang">>)} :
          lists = <<NewRecordList(WithModel.ret, IdsOf(n), context)>>

\* the bounds of a slice: None, and the integers around the list
SliceBounds == {None} \cup {PyInt(n) : n \in (-MaxIds - 1)..(MaxIds + 1)}
SliceSteps == {None, PyInt(2), PyInt(-1)}

\* the methods called on the list: two that Client.execute treats apart, two
\* of the documented ones and one the class does not know
ListMethods == {"read", "name_get", "write", "unlink", "foo"}

NextList ==
    \/ \E c \in Clients, l \in DOMAIN lists, start \in SliceBounds,
          stop \in SliceBounds, step \in SliceSteps :
          ListSlice(c, l, start, stop, step)
    \/ \E c \in Clients, l \in DOMAIN lists, key \in (-MaxIds - 1)..MaxIds :
          ListIndex(c, l, key)
    \/ \E c \in Clients, l \in DOMAIN lists, a \in ListMethods,
          found \in Found, f \in FaultAt(1) :
          ListMethod(c, l, a, IF a = "write" THEN <<Dict(<<"name">>)>> ELSE <<>>,
                     found, f)

SpecList == InitList /\ [][NextList]_vars

----------------------------------------------------------------------------
(* Copies and display names of Records: browse, copy, str, write, unlink   *)

\* the default mappings and contexts given to copy, and the id the server
\* gives to the copy
CopyDefaults == {None, Dict(<<"name">>)}
CopyContexts == {None, Dict(<<"lang">>)}
NewId == 7

NextCopy ==
    \/ \E c \in Clients : ClientAttr(c, "ResPartner", 0)
    \/ \E c \in Clients : \E i \in Handles(c, "res.partner") :
          Browse(c, i, RecordId)
    \/ \E c \in Clients, h \in DOMAIN recs, d \in CopyDefaults,
          x \in CopyContexts, f \in FaultAt(1) :
          RecCopy(c, h, d, x, NewId, f)
    \/ \E c \in Clients, h \in DOMAIN recs, f \in FaultAt(2) : RecStr(c, h, f)
    \/ \E c \in Clients, h \in DOMAIN recs : RecWrite(c, h, 0)
    \/ \E c \in Clients, h \in DOMAIN recs : RecUnlink(c, h, 0)

SpecCopy == InitConnected /\ [][NextCopy]_vars

----------------------------------------------------------------------------
(* The Services of a Client: from a process that holds no Client yet, and  *)
(* a server of one of several versions                                     *)

\* what db.server_version() may answer: 5.0, 5.0.16, 6.0.3, 6.1, 6.1-1
ServerVersions ==
    {<<"5", ".", "0">>, <<"5", ".", "0", ".", "1", "6">>,
     <<"6", ".", "0", ".", "3">>, <<"6", ".", "1">>,
     <<"6", ".", "1", "-", "1">>}

\* the names the caller asks a Service for: every published name of every
\* endpoint, some of the hidden methods of the server, and other names
ServiceNames ==
    UNION {_methods(e) \cup _methods_6_1(e) : e \in Endpoints}
    \cup {"logout", "obj_list", "get_progress", "set_loglevel", "foo"}

InitService ==
    /\ srvPw = [u \in SrvUsers |-> "p1"]
    /\ srvSchema = 0
    /\ srvVersion \in ServerVersions
    /\ cache = EmptyMap
    /\ clients = [c \in Clients |-> NoClient]
    /\ recs = <<>>
    /\ op = NoOp
    /\ calls = <<>>
    /\ args = NoArgs
    /\ lists = <<>>

NextService ==
    \/ \E c \in Clients, u \in {"admin", "eve"}, f \in FaultAt(2) :
          NewClient(c, u, "p1", NoPassword, f)
    \/ \E c \in Clients, e \in Endpoints, n \in ServiceNames, f \in FaultAt(1) :
          ServiceCall(c, e, n, f)

SpecService == InitService /\ [][NextService]_vars

----------------------------------------------------------------------------
(* Two Clients of one process: the session cache _login.cache is an         *)
(* attribute of the function Client.login, one for all the instances        *)

TwoClients == {"c1", "c2"}

InitShared ==
    /\ srvPw = [u \in SrvUsers |-> "p1"]
    /\ srvSchema = 0
    /\ srvVersion = ServerVersion
    /\ cache = EmptyMap
    /\ clients = [c \in TwoClients |-> NoClient]
    /\ recs = <<>>
    /\ op = NoOp
    /\ calls = <<>>
    /\ args = NoArgs
    /\ lists = <<>>

NextShared ==
    \/ \E c \in TwoClients, pt \in Credentials, f \in FaultAt(2) :
          NewClient(c, "admin", pt[1], pt[2], f)
    \/ \E c \in TwoClients, u \in SrvUsers, t \in Passwords, f \in FaultAt(1) :
          Login(c, u, NoPassword, t, f)
    \/ \E p \in Passwords : SrvSetPassword("admin", p)

SpecShared == InitShared /\ [][NextShared]_vars

----------------------------------------------------------------------------
(* Properties of authentication *)

AuthOp == op.name \in {"login", "Client"}
\* _auth was entered: __init__ reaches its login once the version call is through
AuthReached == op.name = "login" \/ (op.name = "Client" /\ op.flt # 1)
\* the calls issued by _auth (the first call of __init__ is db.server_version)
AuthCalls == SelectSeq(calls, LAMBDA k : k.ep # "db")
\* the authenticate and probe calls among them
CredentialCalls == SelectSeq(calls, LAMBDA k : k.via = "probe" \/ k.ep = "common")
LoginCall(user, pw) ==
    Call("proxy", "common", "login", UidNone, pw, "-", "-", user)
ProbeCall(uid, pw) ==
    Call("probe", "object", "execute", uid, pw, "res.users", "fields_get_keys", "-")

\* C3: with an explicit non-empty password, login/_auth issues exactly one
\* remote call, common.login with that password, no probe and no prompt, and
\* its outcome is the outcome of that call, whatever the session cache holds.
C3_ExplicitPasswordBypassesCache ==
    (AuthReached /\ op.b # NoPassword) =>
        /\ AuthCalls = <<LoginCall(op.a, op.b)>>
        /\ ~op.prompted
        /\ op.exc = "" => op.uid = SrvLogin(op.a, op.b)
        /\ op.exc # "" => (op.exc = "Fault" /\ op.flt = Len(calls))

\* C3 witness: an explicit password succeeds while the key is cached
C3_Witness ==
    /\ op.name = "login" /\ op.b # NoPassword /\ op.hit
    /\ op.exc = "" /\ Truthy(op.uid)

\* the position of the probe of a cached entry among the calls
ProbeIdx == IF op.name = "Client" THEN 2 ELSE 1
\* a login without password found the key cached and the probe of the cached
\* (uid, password) failed
CachedProbeFailed ==
    /\ AuthReached /\ op.b = NoPassword /\ op.hit
    /\ Len(calls) >= ProbeIdx
    /\ calls[ProbeIdx].via = "probe"
    /\ op.flt = ProbeIdx \/ ~CredOK(calls[ProbeIdx].uid, calls[ProbeIdx].pw)

\* C4 as stated: when the cached entry fails the probe, the same login call
\* falls through, so it succeeds when the secret typed at the prompt is valid.
C4_FallsThroughAndSucceeds ==
    (CachedProbeFailed /\ SrvLogin(op.a, op.typed) # UidFalse) =>
        (op.exc = "" /\ Truthy(op.uid))

\* C4 amended: when the cached entry fails the probe, the entry is removed and
\* the same login call fails: the probe is its only remote call, there is no
\* lookup, no prompt and no authenticate call, and it returns no identity.
C4_FailedProbeEndsLogin ==
    CachedProbeFailed =>
        /\ AuthCalls = <<ProbeCall(calls[ProbeIdx].uid, calls[ProbeIdx].pw)>>
        /\ ~op.prompted
        /\ op.exc = "" /\ op.uid = UidFalse /\ op.ret = UidNone
        /\ cache_key(op.a) \notin DOMAIN cache

\* C4 witness: the probe failed although the user would have typed a valid secret
C4_Witness == CachedProbeFailed /\ SrvLogin(op.a, op.typed) # UidFalse

\* _auth returned a truthy identity
AuthSucceeded == AuthOp /\ op.exc = "" /\ Truthy(op.uid)
\* the last remote call of the operation accepted (uid, password)
AcceptedByLastCall ==
    /\ calls # <<>>
    /\ op.flt # Len(calls)
    /\ \/ calls[Len(calls)] = ProbeCall(op.uid, op.rpw) /\ CredOK(op.uid, op.rpw)
       \/ calls[Len(calls)] = LoginCall(op.a, op.rpw)
            /\ SrvLogin(op.a, op.rpw) = op.uid
C5_State ==
    /\ \A k \in DOMAIN cache : Truthy(cache[k][1])
    /\ AuthSucceeded =>
        /\ cache_key(op.a) \in DOMAIN cache
        /\ cache[cache_key(op.a)] = <<op.uid, op.rpw>>
        /\ AcceptedByLastCall

\* C5: when _auth returns a truthy identity the cache maps the key to the
\* (identity, password) returned, which the probe or the authenticate call
\* accepted; every entry has a truthy identity, and an entry appears or
\* changes only in such a step.
C5_CacheHoldsAcceptedPairs ==
    [][/\ C5_State'
       /\ \A k \in DOMAIN cache' :
            (k \notin DOMAIN cache \/ cache'[k] # cache[k]) =>
                (AuthSucceeded' /\ k = cache_key(op'.a))]_vars

\* C5 witness: a login that prompted for the password succeeded
C5_Witness ==
    /\ AuthSucceeded /\ op.prompted
    /\ cache[cache_key(op.a)] = <<op.uid, op.typed>>

\* an authentication attempt failed: _auth returned uid False
AuthFailed == AuthOp /\ op.exc = "" /\ op.uid = UidFalse

\* C6 as stated: after any failed attempt the cache holds no entry for the
\* key, and at most one authenticate/probe call was issued.
C6_FailureClearsEntry ==
    AuthFailed =>
        /\ cache_key(op.a) \notin DOMAIN cache
        /\ Len(CredentialCalls) <= 1

\* C6 amended: a failed attempt issues at most one authenticate/probe call;
\* made without an explicit password it leaves no entry for the key, made with
\* an explicit password it leaves the session cache as it was.
C6_FailureClearsEntryUnlessExplicit ==
    [][AuthFailed' =>
        /\ Len(CredentialCalls') <= 1
        /\ IF op'.b = NoPassword
           THEN cache_key(op'.a) \notin DOMAIN cache'
           ELSE cache' = cache]_vars

\* C6 witness: a wrong explicit password fails and the cached entry stays
C6_Witness ==
    /\ AuthFailed /\ op.b # NoPassword /\ op.hit
    /\ cache_key(op.a) \in DOMAIN cache

\* C7: every object.execute call issued through Client.execute carries the
\* (uid, password) of the last login that succeeded on that Client before the
\* call; on a Client where none has, execute raises locally (TypeError) and
\* issues no remote call.
C7_ExecuteCarriesLastLogin ==
    [][/\ \A i \in DOMAIN calls' :
            calls'[i].via = "execute" =>
                /\ op'.name # "Client"
                /\ clients[op'.c].lastOk.set
                /\ calls'[i].uid = clients[op'.c].lastOk.uid
                /\ calls'[i].pw = clients[op'.c].lastOk.pw
       /\ (op'.name = "execute" /\ ~clients[op'.c].lastOk.set) =>
            (calls' = <<>> /\ op'.exc = "TypeError")]_vars

\* C7 witness: after a switch of user, execute is issued as the new user
C7_Witness ==
    /\ op.name = "execute" /\ op.exc = "" /\ calls # <<>>
    /\ calls[1].uid = Uid("bob")
    /\ cache_key("admin") \in DOMAIN cache

\* the transport failed a remote call of the last operation, and the call
\* was not the permission check of access()
TransportFailed == op.flt # 0 /\ calls[op.flt].m # "check"

\* C24: a fault of the transport during an operation propagates to the
\* caller of the operation, and no remote call is issued after it; only the
\* permission check of access() is turned into a return value
C24_FaultsPropagate ==
    TransportFailed => (op.exc = "Fault" /\ Len(calls) = op.flt)

\* the last operation is a login that failed: it raised, or returned None
LoginFailed == op.name = "login" /\ (op.exc # "" \/ op.uid = UidFalse)

\* C29: a failed login on a Client that holds an authenticated session
\* leaves client.user and the authenticated handles (the uid and password
\* bound into execute, exec_workflow, wizard and report) as they were
C29_FailedLoginKeepsTheSession ==
    [][(LoginFailed' /\ clients[op'.c].sess.set) =>
          /\ clients'[op'.c].user = clients[op'.c].user
          /\ clients'[op'.c].sess = clients[op'.c].sess]_vars

\* C29 witness: admin's Client fails to log in as bob and is still admin's
C29_Witness ==
    /\ LoginFailed /\ op.a = "bob" /\ op.exc = ""
    /\ clients[op.c].user = "admin"
    /\ clients[op.c].sess = Session(Uid("admin"), "p1")

\* the entry of the key of user is in the session cache, and it is the
\* (uid, password) another Client than c logged in with as user
SharedEntry(c, user) ==
    /\ cache_key(user) \in DOMAIN cache
    /\ \E d \in DOMAIN clients \ {c} :
          /\ clients[d].user = user
          /\ clients[d].sess = Session(cache[cache_key(user)][1],
                                       cache[cache_key(user)][2])

\* C27: the session cache is shared by the Clients of the process: a login
\* without password, for a key whose cached entry another Client logged in
\* with, issues the probe of the cached (uid, password) and no other call
\* and, when the server accepts the probe, does not prompt and logs in with
\* the cached pair
C27_CacheSharedByAllClients ==
    [][(/\ AuthReached' /\ op'.b = NoPassword
        /\ SharedEntry(op'.c, op'.a)) =>
          /\ AuthCalls' = <<ProbeCall(cache[cache_key(op'.a)][1],
                                      cache[cache_key(op'.a)][2])>>
          /\ (/\ op'.flt = 0
              /\ CredOK(cache[cache_key(op'.a)][1], cache[cache_key(op'.a)][2]))
             => /\ ~op'.prompted
                /\ op'.exc = ""
                /\ clients'[op'.c].user = op'.a
                /\ clients'[op'.c].sess =
                      Session(cache[cache_key(op'.a)][1],
                              cache[cache_key(op'.a)][2])]_vars

\* C27 witness: a second Client is constructed without password for the
\* user the first one logged in as, and holds the same session
C27_Witness ==
    /\ op.name = "Client" /\ op.c = "c2" /\ op.b = NoPassword /\ op.hit
    /\ ~op.prompted /\ Len(calls) = 2
    /\ clients["c1"].user = "admin"
    /\ clients["c2"].user = "admin"
    /\ clients["c2"].sess = clients["c1"].sess

\* C10 as stated: access() returns a boolean and never raises, also on a
\* Client without authenticated handle and from the login of __init__.
C10_AccessNeverRaises ==
    /\ op.name = "access" => op.exc = ""
    /\ (op.name = "Client" /\ op.b = NoPassword /\ ~op.hit) => op.exc # "TypeError"


----------------------------------------------------------------------------
(* Properties of the model registry *)

\* the Model instances the Client serves: registered in _models, or kept in
\* the Client's __dict__ under a MixedCase name
Served(c) ==
    {clients[c].models[n] : n \in DOMAIN clients[c].models}
        \cup {clients[c].mixed[m] : m \in DOMAIN clients[c].mixed}

\* C8: between two upgrade/install/uninstall calls, every route hands out the
\* same Model instance for a model name, and the field names and the field
\* descriptors of an instance are fetched at most once, none at its creation.
C8_OneInstancePerName ==
    \A c \in Clients :
        /\ \A n \in ModelSet : Cardinality(clients[c].given[n]) <= 1
        /\ \A i \in DOMAIN clients[c].insts :
              /\ clients[c].insts[i].nkeys <= 1
              /\ clients[c].insts[i].nfields <= 1
              /\ clients[c].insts[i].keys = NotFetched
                    <=> clients[c].insts[i].nkeys = 0
              /\ clients[c].insts[i].fields = NotFetched
                    <=> clients[c].insts[i].nfields = 0

\* C9: every Model the Client serves holds no metadata, or metadata fetched
\* from the schema as it is now: what was fetched before an upgrade is not
\* served after it.
C9_NoMetadataFromBeforeUpgrade ==
    \A c \in Clients : \A i \in Served(c) :
        /\ clients[c].insts[i].keys \in {NotFetched, srvSchema}
        /\ clients[c].insts[i].fields \in {NotFetched, srvSchema}

----------------------------------------------------------------------------
(* Properties of the Record cache *)

\* the fields of the model, as the server has it now, for which the Record h
\* holds a value read from the server in its __dict__
CachedFields(h) ==
    {f \in DOMAIN recs[h].dict \cap FieldsOf(srvSchema) :
        recs[h].dict[f] \notin {"method", "local"}}
\* the last operation was a Record.write that returned
WriteReturned == op.name = "Record.write" /\ op.exc = ""
\* the fields still cached on the Record of the last operation
CachedOnOperand == CachedFields(op.ret)
\* the operation issued a remote read
IssuedRead == \E i \in DOMAIN calls : calls[i].m = "read"

\* C1: after Record.write returns, no field of the model other than id is
\* cached on that Record, and the next read of a field of the model on it, by
\* attribute or by record[f], issues a remote read before it returns a value.
C1_WriteLeavesNoFieldCached ==
    [][/\ WriteReturned' => CachedOnOperand' = {}
       /\ (/\ WriteReturned
           /\ op'.name \in {"getattr", "getitem"}
           /\ op'.ret = op.ret
           /\ op'.a \in FieldsOf(srvSchema')
           /\ op'.exc = "") => IssuedRead']_vars

\* a write or unlink of the id of the Records succeeded, by a Record, by a
\* RecordList holding the id or by Client.execute
WroteId ==
    /\ op.exc = ""
    /\ \/ op.name \in {"Record.write", "Record.unlink", "RecordList"}
       \/ op.name = "execute" /\ op.b \in {"write", "unlink"}

\* C2: after a write or unlink of an id succeeded through any route of the
\* Client, no Record handle of that id holds a cached field other than id.
C2_NoHandleKeepsFieldsPastWrite ==
    WroteId => \A h \in DOMAIN recs : CachedFields(h) = {}


\* the fields the Model of the Record h knows: its key list
KnownFields(h) == FieldsOf(clients[op.c].insts[recs[h].inst].keys)

\* the last operation was an assignment record.f = v that returned
Assigned == op.name = "setattr" /\ op.exc = ""

\* the remote calls of the operation other than the fetch of the Model's
\* key list
DataCalls == SelectSeq(calls, LAMBDA call : call.m # "fields_get_keys")

\* C17: assigning a field of the model other than id issues exactly one
\* remote write, after which no field other than id is cached on the Record
\* and the assigned value is not kept; assigning a name that is no field of
\* the model issues no remote call and sets the local attribute
C17_AssignmentWritesAndClears ==
    Assigned =>
        IF op.a \in KnownFields(op.ret)
        THEN /\ Len(DataCalls) = 1
             /\ DataCalls[1].m = "write"
             /\ CachedFields(op.ret) = {}
             /\ op.a \notin DOMAIN recs[op.ret].dict
        ELSE /\ DataCalls = <<>>
             /\ op.a \in DOMAIN recs[op.ret].dict
             /\ recs[op.ret].dict[op.a] = "local"

\* the remote read calls of the operation on the model of the Record h
ReadCalls(h) ==
    SelectSeq(calls, LAMBDA call :
        /\ call.m = "read"
        /\ call.obj = clients[op.c].insts[recs[h].inst].name)

\* the last operation was a read of a field, r.f or r[f], that returned
FieldRead == op.name \in {"getattr", "getitem"} /\ op.exc = ""

\* what the Model of the Record read knows, and the remote reads issued
KnownToOperand == KnownFields(op.ret)
OperandReads == ReadCalls(op.ret)

\* the operations that are no write and no unlink of a record
NoWrite == {"browse", "getattr", "getitem", "Record.read", "attr", "upgrade"}

\* C18: browse(id) issues no remote call and returns a Record with that id
\* and no cached field; a read of a field the Model knows that is not cached
\* issues exactly one remote read, of that field, and caches it; a read of a
\* cached field issues no remote call and leaves the cached value; and a
\* cached field stays cached until a write or an unlink
C18_BrowseLazyReadOnceThenCached ==
    [][/\ (op'.name = "browse" /\ op'.exc = "") =>
            /\ calls' = <<>>
            /\ recs' = Append(recs, recs'[op'.ret])
            /\ recs'[op'.ret].id = RecordId
            /\ recs'[op'.ret].dict = EmptyMap
       /\ (FieldRead' /\ op'.a \in DOMAIN recs[op'.ret].dict) =>
            /\ calls' = <<>>
            /\ recs' = recs
       /\ (/\ FieldRead'
           /\ op'.a \notin DOMAIN recs[op'.ret].dict
           /\ op'.a \in KnownToOperand') =>
            /\ Len(OperandReads') = 1
            /\ OperandReads'[1].arg = op'.a
            /\ op'.a \in DOMAIN recs'[op'.ret].dict
       /\ op'.name \in NoWrite =>
            \A h \in DOMAIN recs : DOMAIN recs[h].dict \subseteq DOMAIN recs'[h].dict
      ]_vars

\* a field read for the first time, then read again from the cache
C18_Witness ==
    /\ FieldRead
    /\ op.hit
    /\ op.a = "name"
    /\ calls = <<>>
    /\ recs[op.ret].dict["name"] = "value"

\* C19: each value cached on a Record for a many2one field that is not empty
\* is a Record, never the raw id the server returns, whichever operation
\* cached it: r.f, r[f] or Record.read
C19_CachedRelationsAreRecords ==
    \A h \in DOMAIN recs : \A f \in DOMAIN recs[h].dict :
        (FieldType(f) = "many2one" /\ recs[h].dict[f] \notin {"empty", "local"})
            => recs[h].dict[f] = "Record"

\* the operations that update a cache of the client next to a remote call
Committing ==
    {"Record.write", "Record.unlink", "setattr", "getattr", "getitem",
     "login", "upgrade"}

\* a remote call of the last operation failed and the operation raised
RemoteRaised == op.name \in Committing /\ op.flt # 0 /\ op.exc = "Fault"

\* C23: when the remote call of a write, an unlink, a field assignment, a
\* field read, a login or an upgrade raises, the field cache of every
\* Record, the session cache and the model registry of the Client are as
\* they were before the operation
C23_NothingCommittedWhenTheCallRaises ==
    [][RemoteRaised' =>
          /\ recs' = recs
          /\ cache' = cache
          /\ \A c \in Clients : clients'[c].models = clients[c].models]_vars

\* Record.copy returned
Copied == op.name = "Record.copy" /\ op.exc = ""

\* C25: Record.copy(default, context) issues one remote call, copy on the
\* model of the Record, whose first argument is the id of the Record and
\* which carries the default mapping given, and returns a Record of the
\* same model whose id is the one the call returned
C25_CopyOfTheIdWithDefault ==
    Copied =>
        /\ Len(calls) = 1
        /\ calls[1].m = "copy"
        /\ calls[1].obj = clients[op.c].insts[recs[op.a].inst].name
        /\ calls[1].arg[1] = PyInt(recs[op.a].id)
        /\ op.b # None => \E i \in DOMAIN calls[1].arg : calls[1].arg[i] = op.b
        /\ recs[op.ret].inst = recs[op.a].inst
        /\ recs[op.ret].id = NewId

\* a write or an unlink of the Record returned
Invalidated == op.name \in {"Record.write", "Record.unlink"} /\ op.exc = ""
\* str(record) returned
StrReturned == op.name = "Record.str" /\ op.exc = ""
\* the operation issued a remote name_get
IssuedNameGet == \E i \in DOMAIN calls : calls[i].m = "name_get"

\* C30: after Record.write or Record.unlink returns, the display name is
\* not cached on the Record any more, and the next str(record) issues a
\* name_get
C30_WriteForgetsTheDisplayName ==
    [][/\ Invalidated' => "_name" \notin DOMAIN recs'[op'.ret].dict
       /\ (Invalidated /\ StrReturned' /\ op'.ret = op.ret) =>
             IssuedNameGet']_vars

----------------------------------------------------------------------------
(* Properties of the RecordList *)

\* the last operation was a slice or an item of the RecordList op.b, and
\* it returned
Sliced == op.name = "slice" /\ op.exc = ""
Indexed == op.name = "index" /\ op.exc = ""
Original == lists[op.b]

\* l[a:b] with 0 <= a <= b <= len(l): the ids from the (a+1)th to the bth
PlainSlice ==
    /\ op.a[3] = None
    /\ op.a[1] # None /\ op.a[2] # None
    /\ 0 <= op.a[1][2] /\ op.a[1][2] <= op.a[2][2]
    /\ op.a[2][2] <= Len(Original.ids)

\* l[-n:] with 1 <= n <= len(l): the last n ids
TailSlice ==
    /\ op.a[3] = None /\ op.a[2] = None
    /\ op.a[1] # None
    /\ op.a[1][2] < 0 /\ -op.a[1][2] <= Len(Original.ids)

\* what C20 says of the value returned
SliceReturned ==
    /\ op.ret.cls = "RecordList"
    /\ op.ret.inst = Original.inst
    /\ op.ret.context = Original.context
    /\ PlainSlice =>
          op.ret.ids = SubSeq(Original.ids, op.a[1][2] + 1, op.a[2][2])
    /\ TailSlice =>
          op.ret.ids = SubSeq(Original.ids,
                              Len(Original.ids) + op.a[1][2] + 1,
                              Len(Original.ids))
    /\ \A k \in DOMAIN op.ret.ids :
          \E i \in DOMAIN Original.ids : op.ret.ids[k] = Original.ids[i]
ItemReturned ==
    /\ op.ret.cls = "Record"
    /\ op.ret.inst = Original.inst
    /\ op.ret.id = Original.ids[IF op.a < 0 THEN Len(Original.ids) + op.a + 1
                                ELSE op.a + 1]

\* C20: a slice of a RecordList is a new RecordList of the same slice of
\* its ids (l[2:4]: the 3rd and the 4th), with its model and its context; an
\* item is a Record of the id at that position; neither issues a remote call
\* and the RecordList itself is left as it was
C20_SliceAndItemOfTheIds ==
    [][/\ Sliced' => (SliceReturned' /\ calls' = <<>> /\ lists' = lists)
       /\ Indexed' => (ItemReturned' /\ calls' = <<>> /\ lists' = lists)]_vars

\* l[2:4] of a list of four ids
C20_Witness ==
    /\ Sliced
    /\ op.a = <<PyInt(2), PyInt(4), None>>
    /\ Original.ids = <<10, 11, 12, 13>>
    /\ op.ret.ids = <<12, 13>>
    /\ calls = <<>>

\* a method has been called on a RecordList
ListCalled == op.name = "list.method"

\* C21: for every RecordList, the one without ids included, and every method
\* name m, recordlist.m(...) issues one remote call, of m, whose first
\* argument is the id list of the RecordList, and no other remote call
C21_ListMethodBoundToItsIds ==
    ListCalled =>
        /\ Len(calls) = 1
        /\ calls[1].m = op.a
        /\ calls[1].arg[1] = IdList(Original.ids)

----------------------------------------------------------------------------
(* Properties of the Services *)

ServiceCalled == op.name = "service"

\* the server reports a version 5.0 or 5.0.x
Reports50(version) ==
    /\ Len(version) >= 3
    /\ SubSeq(version, 1, 3) = <<"5", ".", "0">>
    /\ Len(version) > 3 => version[4] = "."

\* the list declared for an endpoint and a reported version: the base list
\* for 5.0, the base list and the 6.1 additions otherwise
Declared(endpoint, version) ==
    IF Reports50(version) THEN _methods(endpoint)
    ELSE _methods(endpoint) \cup _methods_6_1(endpoint)

\* C22: a name asked of a Service of a Client is called on the endpoint, in
\* one request, if and only if it is in the list declared for the endpoint
\* and the version the server reports; any other name raises AttributeError
\* and no request is sent
C22_ExactlyTheDeclaredMethods ==
    ServiceCalled =>
        IF op.b \in Declared(op.a, srvVersion)
        THEN /\ op.exc # "AttributeError"
             /\ Len(calls) = 1
             /\ calls[1].ep = op.a /\ calls[1].meth = op.b
        ELSE op.exc = "AttributeError" /\ calls = <<>>

\* a 5.0.16 server: execute_kw is not published on the object endpoint
C22_Witness ==
    /\ ServiceCalled
    /\ srvVersion = <<"5", ".", "0", ".", "1", "6">>
    /\ op.a = "object" /\ op.b = "execute_kw"
    /\ op.exc = "AttributeError"
    /\ calls = <<>>

----------------------------------------------------------------------------
(* Properties of the arguments of execute *)

\* execute has been called with the arguments in args, and the transport
\* failed none of its calls
Executed == args.kind = "execute" /\ args.done /\ op.exc # "Fault"
ExecutedMethod(methods) == Executed /\ args.method \in methods

\* the first parameter is a search domain: a list, tuple or string that is
\* empty or whose first element is neither an integer nor a digit string
IsDomainParam(p) ==
    /\ p[1] \in {"list", "tuple", "str"}
    /\ \/ p[2] = <<>>
       \/ ~(First(p)[1] = "int" \/ (First(p)[1] = "str" /\ isdigit(First(p)[2])))

\* the first parameter is a single id or a non-empty list of ids
IsIdsParam(p) ==
    \/ p[1] = "int"
    \/ /\ p[1] = "list" /\ p[2] # <<>>
       /\ First(p)[1] = "int" \/ (First(p)[1] = "str" /\ isdigit(First(p)[2]))

\* every string term of the domain parses
Parses(domain) ==
    \A i \in DOMAIN normalize_domain(domain) :
        normalize_domain(domain)[i] # Unparsed

\* a search of the normalized domain, then the method on the answered ids
SearchThenMethod ==
    /\ Len(calls) = 2
    /\ calls[1].m = "search"
    /\ calls[1].arg[1] = List(normalize_domain(args.params[1]))
    /\ calls[2].m = args.method
    /\ calls[2].arg[1] = args.found

\* the method on the given parameter, and no search
MethodOnly ==
    /\ Len(calls) = 1
    /\ calls[1].m = args.method
    /\ calls[1].arg[1] = args.params[1]

\* C11 as stated: execute with method read or name_get issues, when its
\* first parameter is a search domain, exactly two remote calls, a search of
\* the normalized domain and then the method on exactly the ids the search
\* answered; when it is an id or a non-empty id list, exactly one call of
\* the method with that parameter unchanged
C11_DomainSearchedIdsPassed ==
    ExecutedMethod({"read", "name_get"}) =>
        /\ IsDomainParam(args.params[1]) => SearchThenMethod
        /\ IsIdsParam(args.params[1]) => MethodOnly

\* C11 amended: the same for a search domain whose string terms all parse
\* (the empty string does not)
C11_ParsedDomainSearchedIdsPassed ==
    ExecutedMethod({"read", "name_get"}) =>
        /\ IsDomainParam(args.params[1]) /\ Parses(args.params[1])
              => SearchThenMethod
        /\ IsIdsParam(args.params[1]) => MethodOnly

C11_Witness ==
    /\ ExecutedMethod({"read"})
    /\ args.params = <<List(<<GoodTerm, Str(<<"&">>)>>)>>
    /\ args.found = List(<<PyInt(4), PyInt(5)>>)
    /\ Len(calls) = 2
    /\ calls[2].arg[1] = List(<<PyInt(4), PyInt(5)>>)

\* the keyword arguments execute knows
Known(kwargs) == [n \in DOMAIN kwargs \cap KnownKwargs |-> kwargs[n]]

\* the remote calls of the same execute call without its other keyword
\* arguments
TwinCalls ==
    execute(Start(op.c, args.flt), op.a, args.method, args.params,
            Known(args.kwargs), args.found).calls

ExecutedAny == args.kind = "execute" /\ args.done

\* C12 as stated: two execute calls that differ only in keyword arguments
\* other than context, offset, limit, order and fields issue identical
\* sequences of remote calls, same methods and same positional arguments
C12_OtherKwargsWithoutEffect ==
    ExecutedAny => calls = TwinCalls

\* the call carries what its twin carries, or it is a search that carries
\* (domain, 0, None, None, context) where its twin carries the domain alone
SameOrFolded(call, twin) ==
    /\ call.m = twin.m
    /\ \/ call.arg = twin.arg
       \/ /\ call.m = "search"
          /\ Len(twin.arg) = 1
          /\ call.arg = twin.arg \o <<PyInt(0), None, None,
                                      Pop(args.kwargs, "context", None)>>

\* C12 amended: the two execute calls issue the same sequence of remote
\* methods with the same positional arguments, except that a search of a
\* single positional domain that carries the domain alone in one carries
\* (domain, 0, None, None, context or None) in the other; the value of no
\* other keyword argument reaches the server
C12_OtherKwargsOnlyFoldSearch ==
    ExecutedAny =>
        /\ Len(calls) = Len(TwinCalls)
        /\ \A i \in DOMAIN calls : SameOrFolded(calls[i], TwinCalls[i])

C12_Witness ==
    /\ ExecutedAny
    /\ args.method = "read"
    /\ DOMAIN args.kwargs = {"foo"}
    /\ Len(calls) = 2
    /\ Len(calls[1].arg) = 5
    /\ Len(TwinCalls[1].arg) = 1
    /\ calls[2] = TwinCalls[2]


\* execute('search', domain, **kwargs) with one positional parameter, a
\* list, tuple or string whose terms parse
SearchedOneDomain ==
    /\ ExecutedMethod({"search"})
    /\ Len(args.params) = 1
    /\ args.params[1][1] \in {"list", "tuple", "str"}
    /\ Parses(args.params[1])

\* one remote search of (normalized domain, offset or 0, limit or None,
\* order or None, context or None)
OneFoldedSearch ==
    /\ Len(calls) = 1
    /\ calls[1].m = "search"
    /\ calls[1].arg = <<List(normalize_domain(args.params[1])),
                        Pop(args.kwargs, "offset", PyInt(0)),
                        Pop(args.kwargs, "limit", None),
                        Pop(args.kwargs, "order", None),
                        Pop(args.kwargs, "context", None)>>

\* C13 as stated: a search with exactly one positional parameter and at
\* least one of offset, limit, order, context issues exactly one remote
\* search of (normalized domain, offset or 0, limit or None, order or None,
\* context or None)
C13_OptionsFolded ==
    /\ SearchedOneDomain
    /\ DOMAIN args.kwargs \cap {"offset", "limit", "order", "context"} # {}
    => OneFoldedSearch

\* C13 amended: the same with at least one of offset, limit, order or a
\* context that is not empty
C13_OptionsOrContextFolded ==
    /\ SearchedOneDomain
    /\ \/ DOMAIN args.kwargs \cap {"offset", "limit", "order"} # {}
       \/ bool(Pop(args.kwargs, "context", None))
    => OneFoldedSearch

C13_Witness ==
    /\ SearchedOneDomain
    /\ DOMAIN args.kwargs = {"limit", "context"}
    /\ calls[1].arg = <<List(<<Tuple(<<Str(<<"a">>), Str(<<"=">>), PyInt(1)>>)>>),
                        PyInt(0), PyInt(3), None, Dict(<<"lang">>)>>

\* the context given to execute, None when there is none
GivenContext == Pop(args.kwargs, "context", None)

\* C26: a non-empty context given to Client.execute is among the arguments
\* of the remote call of the method, for every method and every number of
\* positional parameters
C26_ContextReachesTheCall ==
    (Executed /\ op.exc = "" /\ bool(GivenContext)) =>
        \E i \in DOMAIN calls[Len(calls)].arg :
            calls[Len(calls)].arg[i] = GivenContext


\* searchargs has been called on the one-term list in args, made of a
\* field, spaces, the operator args.term.o, spaces and a value
NormalizedTerm ==
    /\ args.kind = "searchargs" /\ args.done
    /\ args.term.o # 0

\* the term searchargs returned in the place of the term string
OutTerm == args.out[1][2][1]

\* C14: a term string 'field op value', with op any operator of the closed
\* set, is normalized to a 3-tuple whose field is the field and whose
\* operator is op
C14_FieldAndOperatorRoundTrip ==
    NormalizedTerm =>
        /\ OutTerm[1] = "tuple"
        /\ Len(OutTerm[2]) = 3
        /\ OutTerm[2][1] = Str(args.term.field)
        /\ OutTerm[2][2] = Str(TermOperators[args.term.o])


\* no operator of the closed set stands anywhere in the text
NoOperatorIn(chars) ==
    \A q \in 1..Len(chars), o \in DOMAIN TermOperators :
        ~StartsAt(chars, q, TermOperators[o])

\* a term string, no connector, in which no operator can be recognized
Unrecognizable(term) ==
    /\ term[1] = "str"
    /\ term \notin DOMAIN_OPERATORS
    /\ NoOperatorIn(term[2])

\* the domain is such a term string, or a list with one
HasUnrecognizable(domain) ==
    \/ Unrecognizable(domain)
    \/ /\ domain[1] = "list"
       /\ \E i \in DOMAIN domain[2] : Unrecognizable(domain[2][i])

\* execute has been called with a domain for its method: any first
\* parameter of search and search_count, a search domain of read and name_get
ExecutedOnDomain ==
    /\ ExecutedAny
    /\ args.params # <<>>
    /\ \/ args.method \in {"search", "search_count"}
       \/ /\ args.method \in {"read", "name_get"}
          /\ IsDomainParam(args.params[1])

\* C15: normalizing a term string in which no operator of the closed set
\* can be recognized raises ValueError, and an execute call of search, read,
\* name_get or search_count given a domain with such a term raises it and
\* issues no remote call
C15_UnrecognizableTermRaisesBeforeAnyCall ==
    /\ (/\ args.kind = "searchargs" /\ args.done
        /\ HasUnrecognizable(args.params[1]))
       => Raised(args.out)
    /\ (ExecutedOnDomain /\ HasUnrecognizable(args.params[1]))
       => op.exc = "ValueError" /\ calls = <<>>

C15_Witness ==
    /\ ExecutedOnDomain
    /\ args.method = "read"
    /\ args.params[1] = List(<<GoodTerm, BadTerm>>)
    /\ op.exc = "ValueError"
    /\ calls = <<>>


\* searchargs has been called on the domain list in args and has returned
NormalizedList ==
    /\ args.kind = "searchargs" /\ args.done
    /\ args.params[1][1] = "list"
    /\ ~Raised(args.out)

\* a string term that is no connector
IsTermString(term) == term[1] = "str" /\ term \notin DOMAIN_OPERATORS

\* C16: normalizing a domain list keeps its length and order: a connector
\* and a term that is no string stay unchanged at their index, and each
\* string term that is no connector is replaced by one 3-tuple at its index
C16_LengthOrderAndConnectorsKept ==
    NormalizedList =>
        /\ Len(args.out) = 1
        /\ args.out[1][1] = "list"
        /\ Len(args.out[1][2]) = Len(args.params[1][2])
        /\ \A i \in DOMAIN args.params[1][2] :
              IF IsTermString(args.params[1][2][i])
              THEN /\ args.out[1][2][i][1] = "tuple"
                   /\ Len(args.out[1][2][i][2]) = 3
              ELSE args.out[1][2][i] = args.params[1][2][i]

C16_Witness ==
    /\ NormalizedList
    /\ args.params[1] = List(<<Str(<<"&">>), GoodTerm>>)
    /\ args.out[1] =
          List(<<Str(<<"&">>), Tuple(<<Str(<<"a">>), Str(<<"=">>), PyInt(1)>>)>>)

\* searchargs has been called on a list of one term string, no connector
NormalizedOneString ==
    /\ args.kind = "searchargs" /\ args.done
    /\ args.params[1][1] = "list"
    /\ Len(args.params[1][2]) = 1
    /\ IsTermString(args.params[1][2][1])

\* the stripped text of that term string
StrippedText == strip(args.params[1][2][1][2])

\* the length of the first whitespace-delimited token of a stripped text
TokenLen(chars) ==
    CHOOSE k \in 0..Len(chars) :
        /\ \A i \in 1..k : chars[i] # " "
        /\ k = Len(chars) \/ chars[k + 1] = " "
FirstToken(chars) == SubSeq(chars, 1, TokenLen(chars))

\* after the first token and the spaces behind it stands an operator of the
\* closed set
OperatorFollows(chars) ==
    \E o \in DOMAIN TermOperators :
        StartsAt(chars, SkipSpaces(chars, TokenLen(chars) + 1),
                 TermOperators[o])

\* C28: the field of the 3-tuple of an accepted term string is the first
\* whitespace-delimited token of the stripped string, and a string whose
\* first token is not followed by an operator of the closed set is rejected
C28_FieldIsTheFirstToken ==
    NormalizedOneString =>
        /\ ~Raised(args.out) =>
              OutTerm[2][1] = Str(FirstToken(StrippedText))
        /\ ~OperatorFollows(StrippedText) => Raised(args.out)


====
